---------------------------- MODULE Spec2Model ----------------------------
(***************************************************************************)
(* Trade-lifecycle simulation engine of paper-bot                          *)
(* (ImprovedTradingBacktest in src/timeframe.cjs; TradingBacktest in       *)
(* src/test.cjs is the same engine with fixed indicator periods).          *)
(*                                                                         *)
(* One behaviour of Spec is one call of backtest(data, strategyMode,       *)
(* useRegimeParams, interval) on one engine instance: every step is one    *)
(* iteration of the bar loop, the last step is the end-of-data close.      *)
(*                                                                         *)
(* Numbers.  JavaScript doubles are modelled in fixed point:               *)
(*   prices, ATR, capital, pnl   integer cents            (PriceScale)     *)
(*   quantities                  1/QtyScale units                          *)
(*   ATR multiples and regime multipliers  hundredths     (MultScale)      *)
(*   rates (fees, slippage, funding)      1/RateScale                      *)
(* Quotients are rounded down.  A profit expressed in ATR units is kept as *)
(* an exact fraction, with the IEEE results of a division by zero          *)
(* (NaN, +Infinity, -Infinity), so that every threshold test is exact.     *)
(***************************************************************************)
EXTENDS Integers, Sequences, FiniteSets, TLC

PriceScale == 10^2
QtyScale   == 10^2
MultScale  == 10^2
RateScale  == 10^4
PctScale   == 10^3

\* Number of bars of data past the history floor that a run may process.
ExtraBars == 2

\* Number of quiet bars after the bar at the floor in the runs that hold a
\* position (33 bars held are the first to pay a funding period).
HoldBars == 33

Max(a, b) == IF a >= b THEN a ELSE b
Min(a, b) == IF a <= b THEN a ELSE b
Abs(a)    == IF a >= 0 THEN a ELSE 0 - a
Last(s)   == s[Len(s)]

(***************************************************************************)
(* IEEE quotients: a / b as JavaScript computes it.                        *)
(***************************************************************************)
NaNQ      == [kind |-> "nan", n |-> 0, d |-> 1]
InfQ(s)   == [kind |-> "inf", n |-> s, d |-> 1]
FinQ(n,d) == [kind |-> "fin", n |-> n, d |-> d]
ZeroQ     == FinQ(0, 1)

Quot(a, b) ==
  IF b > 0 THEN FinQ(a, b)
  ELSE IF b < 0 THEN FinQ(0 - a, 0 - b)
  ELSE IF a = 0 THEN NaNQ
  ELSE IF a > 0 THEN InfQ(1) ELSE InfQ(0 - 1)

\* q < t / MultScale, q >= t / MultScale, q > t / MultScale (false on NaN)
QLt(q, t) ==
  CASE q.kind = "fin" -> q.n * MultScale < t * q.d
    [] q.kind = "inf" -> q.n < 0
    [] OTHER          -> FALSE
QGe(q, t) ==
  CASE q.kind = "fin" -> q.n * MultScale >= t * q.d
    [] q.kind = "inf" -> q.n > 0
    [] OTHER          -> FALSE
QGt(q, t) ==
  CASE q.kind = "fin" -> q.n * MultScale > t * q.d
    [] q.kind = "inf" -> q.n > 0
    [] OTHER          -> FALSE

\* p <= q on two quotients, neither NaN
QLe(p, q) ==
  CASE p.kind = "fin" /\ q.kind = "fin" -> p.n * q.d <= q.n * p.d
    [] p.kind = "inf" /\ q.kind = "inf" -> p.n <= q.n
    [] p.kind = "inf"                   -> p.n < 0
    [] OTHER                            -> q.n > 0

\* a fault: the profit of the bar replaces the maximum
MathMaxQLatest(p, q) == q

\* Math.max(p, q): NaN when either argument is NaN
MathMaxQ(p, q) ==
  IF p.kind = "nan" \/ q.kind = "nan" THEN NaNQ
  ELSE IF QLe(q, p) THEN p ELSE q

\* Number.prototype.toFixed(2): the value in hundredths, rounded half away
\* from zero; NaN and the infinities print as themselves.
ToFixed2(q) ==
  IF q.kind # "fin" THEN q
  ELSE LET a == Abs(q.n) * 100
           r == (2 * a + q.d) \div (2 * q.d)
       IN  FinQ(IF q.n >= 0 THEN r ELSE 0 - r, 100)

(***************************************************************************)
(* Constructor parameters (timeframe.cjs 170-203).                         *)
(***************************************************************************)
initialCapital               == 10000 * PriceScale
takerFee                     == 4      \* 0.0004
maintenanceMarginRate        == 4      \* 0.004, in 1/PctScale
baseSlippage                 == 3      \* 0.0003
volatilitySlippageMultiplier == 2      \* 0.0002
stopSlippageATRMultiplier    == 30     \* 0.3
profitThresholdATR           == 50     \* 0.5
initialStopATR               == 200    \* 2.0
profitTrailingATR            == 100    \* 1.0
fundingRate                  == 1      \* 0.0001

profitTiers ==
  << [profitATR |-> 50,  trailATR |-> 100],
     [profitATR |-> 150, trailATR |-> 75],
     [profitATR |-> 300, trailATR |-> 50] >>

regimeMultipliers ==
  [ bull  |-> [initial |-> 100, profit |-> 120],
    bear  |-> [initial |-> 100, profit |-> 120],
    range |-> [initial |-> 100, profit |-> 80] ]

defaultParams ==
  [rsiPeriod |-> 14, atrPeriod |-> 14, emaFast |-> 20, emaMedium |-> 50,
   emaSlow |-> 200, regimeLookback |-> 50, minHoldBars |-> 3]

timeframeParams ==
  [ m1  |-> [rsiPeriod |-> 8,  atrPeriod |-> 10, emaFast |-> 8,  emaMedium |-> 21,
             emaSlow |-> 50,  regimeLookback |-> 20, minHoldBars |-> 2],
    m3  |-> [rsiPeriod |-> 10, atrPeriod |-> 12, emaFast |-> 12, emaMedium |-> 26,
             emaSlow |-> 50,  regimeLookback |-> 30, minHoldBars |-> 2],
    m5  |-> [rsiPeriod |-> 12, atrPeriod |-> 14, emaFast |-> 12, emaMedium |-> 26,
             emaSlow |-> 50,  regimeLookback |-> 40, minHoldBars |-> 3],
    m15 |-> [rsiPeriod |-> 12, atrPeriod |-> 14, emaFast |-> 12, emaMedium |-> 26,
             emaSlow |-> 50,  regimeLookback |-> 50, minHoldBars |-> 3],
    h1  |-> [rsiPeriod |-> 14, atrPeriod |-> 14, emaFast |-> 20, emaMedium |-> 50,
             emaSlow |-> 200, regimeLookback |-> 50, minHoldBars |-> 4],
    h4  |-> [rsiPeriod |-> 14, atrPeriod |-> 14, emaFast |-> 20, emaMedium |-> 50,
             emaSlow |-> 200, regimeLookback |-> 50, minHoldBars |-> 5],
    d1  |-> [rsiPeriod |-> 14, atrPeriod |-> 14, emaFast |-> 20, emaMedium |-> 50,
             emaSlow |-> 200, regimeLookback |-> 50, minHoldBars |-> 6] ]

\* this.timeframeParams[interval] || this.defaultParams
getTimeframeParams(iv) ==
  CASE iv = "1m"  -> timeframeParams.m1
    [] iv = "3m"  -> timeframeParams.m3
    [] iv = "5m"  -> timeframeParams.m5
    [] iv = "15m" -> timeframeParams.m15
    [] iv = "1h"  -> timeframeParams.h1
    [] iv = "4h"  -> timeframeParams.h4
    [] iv = "1d"  -> timeframeParams.d1
    [] OTHER            -> defaultParams

\* intervalMs[interval], in minutes (timeframe.cjs 120-124)
IntervalMinutes(iv) ==
  CASE iv = "1m"  -> 1
    [] iv = "3m"  -> 3
    [] iv = "5m"  -> 5
    [] iv = "15m" -> 15
    [] iv = "30m" -> 30
    [] iv = "1h"  -> 60
    [] iv = "2h"  -> 120
    [] iv = "4h"  -> 240
    [] iv = "6h"  -> 360
    [] iv = "12h" -> 720
    [] OTHER      -> 1440

\* interval.includes('m')
IncludesM(iv) == iv \in {"1m", "3m", "5m", "15m"}

(***************************************************************************)
(* Price calculators (timeframe.cjs 289-317).                              *)
(***************************************************************************)
\* price * (1 +/- (baseSlippage + atr / price * volatilitySlippageMultiplier))
calculateSlippage(price, side, atr) ==
  IF side = "buy"
  THEN (price * (RateScale + baseSlippage) + atr * volatilitySlippageMultiplier)
         \div RateScale
  ELSE (price * (RateScale - baseSlippage) - atr * volatilitySlippageMultiplier)
         \div RateScale

\* a fault: the stop fills on the favourable side
calculateStopSlippageFavourable(stopPrice, side, atr) ==
  LET slippage == (atr * stopSlippageATRMultiplier) \div MultScale
  IN  IF side = "long" THEN stopPrice + slippage ELSE Max(0, stopPrice - slippage)

calculateStopSlippage(stopPrice, side, atr) ==
  LET slippage == (atr * stopSlippageATRMultiplier) \div MultScale
  IN  IF side = "long" THEN Max(0, stopPrice - slippage) ELSE stopPrice + slippage

\* a fault: the maintenance margin left out
calculateLiquidationPriceNoMaintenance(entry, lev, side) ==
  IF side = "long"
  THEN (entry * (PctScale - (PctScale \div lev))) \div PctScale
  ELSE (entry * (PctScale + (PctScale \div lev))) \div PctScale

calculateLiquidationPrice(entry, lev, side) ==
  IF side = "long"
  THEN (entry * (PctScale - (PctScale \div lev) + maintenanceMarginRate)) \div PctScale
  ELSE (entry * (PctScale + (PctScale \div lev) - maintenanceMarginRate)) \div PctScale

\* a fault: one period charged whatever the time held
calculateFundingCostOnePeriod(positionValue, quarterHoursHeld) ==
  (positionValue * fundingRate) \div RateScale

\* hoursHeld is given in quarter hours (barsHeld * 0.25): floor(h / 8) periods
calculateFundingCost(positionValue, quarterHoursHeld) ==
  LET fundingPeriods == quarterHoursHeld \div 32
  IN  (positionValue * fundingRate * fundingPeriods) \div RateScale

(***************************************************************************)
(* Dynamic trailing stop (timeframe.cjs 320-354).                          *)
(***************************************************************************)
RegimeType(regime) ==
  IF regime.bull THEN "bull" ELSE IF regime.bear THEN "bear" ELSE "range"

Multipliers(regime) ==
  LET t == RegimeType(regime)
  IN  IF t = "bull" THEN regimeMultipliers.bull
      ELSE IF t = "bear" THEN regimeMultipliers.bear
      ELSE regimeMultipliers.range

ProfitInATR(currentPrice, entry, currentAtr, pos) ==
  Quot(IF pos = 1 THEN currentPrice - entry ELSE entry - currentPrice, currentAtr)

\* a fault: the loop stops at the first tier reached
RECURSIVE TierScanFirst(_, _, _)
TierScanFirst(q, k, trailATR) ==
  IF k > Len(profitTiers) THEN trailATR
  ELSE IF QGe(q, profitTiers[k].profitATR) THEN profitTiers[k].trailATR
  ELSE TierScanFirst(q, k + 1, trailATR)

\* the loop over this.profitTiers: every tier reached overwrites trailATR
RECURSIVE TierScan(_, _, _)
TierScan(q, k, trailATR) ==
  IF k > Len(profitTiers) THEN trailATR
  ELSE TierScan(q, k + 1,
                IF QGe(q, profitTiers[k].profitATR)
                THEN profitTiers[k].trailATR ELSE trailATR)

\* trailATR before the regime adjustment (lines 340-345)
SelectTrailATR(q) == TierScan(q, 1, profitTrailingATR)

\* the branch test of line 332
PreProfit(q) == QLt(q, profitThresholdATR)

\* a fault: the tiered distance whatever the profit
StopDistanceAlwaysTiered(currentPrice, entry, currentAtr, pos, regime) ==
  (SelectTrailATR(ProfitInATR(currentPrice, entry, currentAtr, pos))
     * Multipliers(regime).profit * currentAtr) \div (MultScale * MultScale)

\* stop distance in price units
StopDistance(currentPrice, entry, currentAtr, pos, regime) ==
  LET q == ProfitInATR(currentPrice, entry, currentAtr, pos)
      m == Multipliers(regime)
  IN  IF PreProfit(q)
      THEN (initialStopATR * currentAtr * m.initial) \div (MultScale * MultScale)
      ELSE (SelectTrailATR(q) * m.profit * currentAtr) \div (MultScale * MultScale)

\* a fault: the distance applied on the wrong side of the price
calculateDynamicTrailingStopInverted(currentPrice, entry, currentAtr, pos, regime) ==
  LET stopDistance == StopDistance(currentPrice, entry, currentAtr, pos, regime)
  IN  IF pos = 1 THEN currentPrice + stopDistance ELSE currentPrice - stopDistance

\* lines 320-354: the price less (long) or plus (short) the stop distance
calculateDynamicTrailingStop(currentPrice, entry, currentAtr, pos, regime) ==
  LET stopDistance == StopDistance(currentPrice, entry, currentAtr, pos, regime)
  IN  IF pos = 1 THEN currentPrice - stopDistance ELSE currentPrice + stopDistance

(***************************************************************************)
(* Indicators and signals (timeframe.cjs 34-43, 356-547).                  *)
(*                                                                         *)
(* The candle windows that the indicators are computed from are not kept:  *)
(* a bar is presented to generateSignals as a snapshot s of the values the *)
(* indicator functions return for it,                                      *)
(*   s.close, s.prevClose, s.volume, s.prevVolume   candles i and i-1      *)
(*   s.tr           mean true range of the ATR window (>= 0)               *)
(*   s.rsi, s.prevRsi   RSI of the windows ending at i and i-1 (0..100)    *)
(*   s.emaFastPrev, s.emaMedium, s.emaSlow   EMA values                    *)
(*   s.recentHigh, s.recentLow   max high / min low of the breakout window *)
(*   s.regime       the record detectRegime returns                        *)
(* What stays of each indicator is the index from which it is defined and  *)
(* the EMA recurrence.                                                     *)
(***************************************************************************)
\* the value of an indicator array that was never written (fill(NaN)), and
\* of the atr field missing from a signal below the history floor
NaN == 0 - 1
isNaN(x) == x = NaN

\* DataAnalysis.ema: result[i] = data[i] * k + result[i-1] * (1 - k), k = 2/(period+1)
EmaStep(value, prev, period) == (2 * value + (period - 1) * prev) \div (period + 1)

\* calculateATR writes atr[i] for i >= 1 and i >= atrPeriod
calculateATR(idx, iv, tr) ==
  IF idx >= 1 /\ idx >= getTimeframeParams(iv).atrPeriod THEN tr ELSE NaN

\* calculateRSI writes rsi[i] for i >= rsiPeriod
RsiDefined(idx, iv) == idx >= getTimeframeParams(iv).rsiPeriod

\* detectRegime: range below the lookback, else one of the three
detectRegime(idx, iv, regime) ==
  IF idx < getTimeframeParams(iv).regimeLookback
  THEN [bull |-> FALSE, bear |-> FALSE, range |-> TRUE]
  ELSE regime

\* a fault: the smaller of the two periods
HistoryFloorMin(iv) ==
  Min(getTimeframeParams(iv).emaSlow, getTimeframeParams(iv).regimeLookback)

\* Math.max(params.emaSlow, params.regimeLookback), line 459
HistoryFloor(iv) ==
  Max(getTimeframeParams(iv).emaSlow, getTimeframeParams(iv).regimeLookback)

\* a fault: the oversold and overbought levels exchanged
RsiThresholdsSwapped(iv) ==
  IF IncludesM(iv)
  THEN [rsiOversold |-> 75, rsiOverbought |-> 25, rsiNeutralMin |-> 35,
        rsiNeutralMax |-> 65]
  ELSE [rsiOversold |-> 70, rsiOverbought |-> 30, rsiNeutralMin |-> 40,
        rsiNeutralMax |-> 60]

\* the RSI thresholds of the interval, lines 472-475
RsiThresholds(iv) ==
  IF IncludesM(iv)
  THEN [rsiOversold |-> 25, rsiOverbought |-> 75, rsiNeutralMin |-> 35,
        rsiNeutralMax |-> 65]
  ELSE [rsiOversold |-> 30, rsiOverbought |-> 70, rsiNeutralMin |-> 40,
        rsiNeutralMax |-> 60]

\* the callback of data.map in generateSignals, for bar i
generateSignals(idx, mode, iv, s) ==
  LET params   == getTimeframeParams(iv)
      m        == IncludesM(iv)
      rsiOk    == RsiDefined(idx, iv)
      prevOk   == RsiDefined(idx - 1, iv)
      RsiLt(t) == rsiOk /\ s.rsi < t
      RsiGt(t) == rsiOk /\ s.rsi > t
      rsiUp    == rsiOk /\ prevOk /\ s.rsi > s.prevRsi
      rsiDown  == rsiOk /\ prevOk /\ s.rsi < s.prevRsi
      regime   == detectRegime(idx, iv, s.regime)
      emaFast  == EmaStep(s.close, s.emaFastPrev, params.emaFast)
      rsiOversold   == RsiThresholds(iv).rsiOversold
      rsiOverbought == RsiThresholds(iv).rsiOverbought
      rsiNeutralMin == RsiThresholds(iv).rsiNeutralMin
      rsiNeutralMax == RsiThresholds(iv).rsiNeutralMax
      shortOverbought == /\ RsiGt(IF m THEN 65 ELSE 60)
                         /\ s.close < s.emaSlow
                         /\ emaFast < s.emaMedium
      shortFailedBreakout == /\ s.close < emaFast
                             /\ s.prevClose > s.emaFastPrev
                             /\ s.close < s.emaSlow
      shortBreakdown == s.close < s.recentLow /\ s.close < s.emaSlow
      longExtremeBounce == /\ RsiLt(IF m THEN 20 ELSE 25)
                           /\ s.close > s.prevClose
                           /\ s.volume * 10 > s.prevVolume * 12
      bullLong == /\ regime.bull
                  /\ s.close > s.emaSlow
                  /\ s.close < emaFast
                  /\ RsiGt(rsiNeutralMin) /\ RsiLt(rsiNeutralMax)
                  /\ rsiUp
      bearShort == /\ regime.bear
                   /\ RsiGt(IF m THEN 65 ELSE 60)
                   /\ s.close < s.emaSlow
                   /\ emaFast < s.emaMedium
      bearLong == /\ regime.bear
                  /\ RsiLt(IF m THEN 20 ELSE 25)
                  /\ s.close > s.prevClose
      rangeLong  == regime.range /\ RsiLt(rsiOversold)
      rangeShort == regime.range /\ RsiGt(rsiOverbought)
      longSignal ==
        CASE mode = "mean_reversion" ->
               RsiLt(rsiOversold) /\ s.close > s.emaSlow
          [] mode = "momentum" ->
               /\ s.close > s.recentHigh /\ RsiGt(50)
               /\ s.close > s.emaSlow /\ emaFast > s.emaMedium
          [] mode = "pullback" ->
               /\ s.close > s.emaSlow /\ s.close < emaFast
               /\ RsiGt(rsiNeutralMin) /\ RsiLt(rsiNeutralMax) /\ rsiUp
          [] mode = "bear_market" -> longExtremeBounce
          [] OTHER -> bullLong \/ bearLong \/ rangeLong
      shortSignal ==
        CASE mode = "mean_reversion" ->
               RsiGt(rsiOverbought) /\ s.close < s.emaSlow
          [] mode = "momentum" ->
               /\ s.close < s.recentLow /\ RsiLt(50)
               /\ s.close < s.emaSlow /\ emaFast < s.emaMedium
          [] mode = "pullback" ->
               /\ s.close < s.emaSlow /\ s.close > emaFast
               /\ RsiGt(rsiNeutralMin) /\ RsiLt(rsiNeutralMax) /\ rsiDown
          [] mode = "bear_market" ->
               shortOverbought \/ shortFailedBreakout \/ shortBreakdown
          [] OTHER -> bearShort \/ rangeShort
  IN  IF idx < HistoryFloor(iv)
      THEN [long |-> FALSE, short |-> FALSE, atr |-> NaN,
            regime |-> [bull |-> FALSE, bear |-> FALSE, range |-> FALSE]]
      ELSE [long |-> longSignal, short |-> shortSignal,
            atr |-> calculateATR(idx, iv, s.tr), regime |-> regime]

(***************************************************************************)
(* The data of a run.  Candles are well formed (low <= close <= high), so  *)
(* the breakout window, which ends at candle i-1, has                      *)
(* recentLow <= prevClose <= recentHigh.                                   *)
(***************************************************************************)
Closes      == {90 * PriceScale, 100 * PriceScale, 105 * PriceScale}
TrueRanges  == {0, 4 * PriceScale}
Volumes     == {100, 130}
RsiValues   == {15, 22, 28, 38, 45, 55, 62, 72, 80}
PrevRsis    == {40, 60}
EmaValues   == {95 * PriceScale, 102 * PriceScale}
Regimes     == { [bull |-> TRUE,  bear |-> FALSE, range |-> FALSE],
                 [bull |-> FALSE, bear |-> TRUE,  range |-> FALSE],
                 [bull |-> FALSE, bear |-> FALSE, range |-> TRUE] }
Modes       == {"mean_reversion", "momentum", "pullback", "bear_market", "adaptive"}
Intervals   == {"1m", "1h"}
Leverages   == {10}
UseRegimeParams == {TRUE}

PrevVolumes == {100}

\* the snapshots of a bar, but for its mean true range
Snapshots ==
  { s \in [close : Closes, prevClose : Closes, volume : Volumes, prevVolume : PrevVolumes,
           tr : {0}, rsi : RsiValues, prevRsi : PrevRsis,
           emaFastPrev : EmaValues, emaMedium : EmaValues, emaSlow : EmaValues,
           recentHigh : Closes, recentLow : Closes, regime : Regimes] :
      s.recentLow <= s.prevClose /\ s.prevClose <= s.recentHigh }

\* data[i] and signals[i] as backtest reads them: the close and the signal
BarOf(idx, mode, iv, s) ==
  [close |-> s.close, signal |-> generateSignals(idx, mode, iv, s)]

\* every (strategyMode, interval, data[i], signals[i]) of a bar at or above
\* the history floor, but for the ATR: long and short do not read it
FloorSignals ==
  { <<mode, iv, BarOf(HistoryFloor(iv), mode, iv, s)>> :
      mode \in Modes, iv \in Intervals, s \in Snapshots }

\* the same with every mean true range, per strategyMode and interval
FloorBars ==
  { <<t[1], t[2], [close  |-> t[3].close,
                   signal |-> [t[3].signal EXCEPT
                                 !.atr = calculateATR(HistoryFloor(t[2]), t[2], tr)]]>> :
      t \in FloorSignals, tr \in TrueRanges }

FloorBarsOf(mode, iv) ==
  { t[3] : t \in { x \in FloorBars : x[1] = mode /\ x[2] = iv } }

FloorBarsOfMode == 
  [mode \in Modes |-> [iv \in Intervals |-> FloorBarsOf(mode, iv)]]

\* below the floor the signal does not depend on the indicators
AnySnapshot(c) ==
  [close |-> c, prevClose |-> c, volume |-> 100, prevVolume |-> 100,
   tr |-> 0, rsi |-> 50, prevRsi |-> 50, emaFastPrev |-> c, emaMedium |-> c,
   emaSlow |-> c, recentHigh |-> c, recentLow |-> c,
   regime |-> [bull |-> FALSE, bear |-> FALSE, range |-> TRUE]]

Bars(idx, mode, iv) ==
  IF idx < HistoryFloor(iv)
  THEN { BarOf(idx, mode, iv, AnySnapshot(c)) : c \in Closes }
  ELSE FloorBarsOfMode[mode][iv]

\* the candles data[idx] of the runs of Spec: any bar, data.length at most
\* the floor + ExtraBars
Series(idx, mode, iv) ==
  IF idx < HistoryFloor(iv) + ExtraBars THEN Bars(idx, mode, iv) ELSE {}

\* a quiet bar: close c, mean true range tr, every indicator neutral
QuietSnapshot(c, tr) ==
  [close |-> c, prevClose |-> 100 * PriceScale, volume |-> 100, prevVolume |-> 100,
   tr |-> tr, rsi |-> 50, prevRsi |-> 50, emaFastPrev |-> 100 * PriceScale,
   emaMedium |-> 100 * PriceScale, emaSlow |-> 100 * PriceScale,
   recentHigh |-> 105 * PriceScale, recentLow |-> 90 * PriceScale,
   regime |-> [bull |-> FALSE, bear |-> FALSE, range |-> TRUE]]

ShockCloses == {90 * PriceScale, 92 * PriceScale, 100 * PriceScale, 108 * PriceScale}
ShockRanges == {4 * PriceScale, 20 * PriceScale}

\* the candles data[idx] of the runs of SpecHold: any bar closing at 100 on
\* the floor, then HoldBars - 1 quiet bars, then a bar of any close and
\* volatility, then any bar; data.length at most the floor + HoldBars + 2
HeldSeries(idx, mode, iv) ==
  LET k == idx - HistoryFloor(iv)
  IN  IF k < 0 THEN Bars(idx, mode, iv)
      ELSE IF k = 0
        THEN { b \in FloorBarsOfMode[mode][iv] : b.close = 100 * PriceScale }
      ELSE IF k < HoldBars
        THEN { BarOf(idx, mode, iv, QuietSnapshot(100 * PriceScale, 4 * PriceScale)) }
      ELSE IF k = HoldBars
        THEN { BarOf(idx, mode, iv, QuietSnapshot(c, tr)) :
                 c \in ShockCloses, tr \in ShockRanges }
      ELSE IF k = HoldBars + 1 THEN FloorBarsOfMode[mode][iv]
      ELSE {}

(***************************************************************************)
(* backtest (timeframe.cjs 569-792).                                       *)
(***************************************************************************)
\* a fault: a margin of 120% of capital
getRegimeParametersOversized(isBull, isBear, isRange) ==
  [positionSizePct |-> 120, minHoldBars |-> 3]

\* getRegimeParameters, and the literal used when useRegimeParams is false;
\* positionSizePct in percent
getRegimeParameters(isBull, isBear, isRange) ==
  IF isBull THEN [positionSizePct |-> 80, minHoldBars |-> 3]
  ELSE IF isBear THEN [positionSizePct |-> 80, minHoldBars |-> 3]
  ELSE [positionSizePct |-> 80, minHoldBars |-> 3]

BarParams(useRP, regime) ==
  IF useRP THEN getRegimeParameters(regime.bull, regime.bear, regime.range)
  ELSE [positionSizePct |-> 50, minHoldBars |-> 3]

\* line 604
RegimeName(regime) ==
  IF regime.bull THEN "BULL" ELSE IF regime.bear THEN "BEAR" ELSE "RANGE"

Direction(pos) == IF pos = 1 THEN "long" ELSE "short"

\* a fault: only long positions are tested
LiquidationHitLongOnly(pos, close, liq) == pos = 1 /\ close <= liq

\* lines 609-610
LiquidationHit(pos, close, liq) ==
  (pos = 1 /\ close <= liq) \/ (pos = 0 - 1 /\ close >= liq)

\* a fault: the notional value, not the margin
MarginLostNotional(entry, qty) == ((entry * qty) \div QtyScale) * 10

\* entryPrice * positionQty, line 612
MarginLost(entry, qty) == (entry * qty) \div QtyScale

\* a fault: the candidate always replaces the stop
MergeStopReplace(pos, stop, newStop) == newStop

\* lines 659-663
MergeStop(pos, stop, newStop) ==
  IF pos = 1 THEN Max(stop, newStop) ELSE Min(stop, newStop)

\* lines 666-668
StopHit(pos, close, stop) ==
  IF pos = 1 THEN close <= stop ELSE close >= stop

\* (exit - entry) * qty * leverage, sign by direction (lines 672-674, 765-767)
GrossPnl(pos, entry, exit, qty, lev) ==
  IF pos = 1 THEN (((exit - entry) * qty) \div QtyScale) * lev
  ELSE (((entry - exit) * qty) \div QtyScale) * lev

\* exitPrice * positionQty * leverage
PositionValue(exit, qty, lev) == ((exit * qty) \div QtyScale) * lev

\* lines 676-678, 769-771: pnl - exitFee - fundingCost
NetPnl(pos, entry, exit, qty, lev, barsForFunding) ==
  LET pnl         == GrossPnl(pos, entry, exit, qty, lev)
      exitFee     == (PositionValue(exit, qty, lev) * takerFee) \div RateScale
      fundingCost == calculateFundingCost(PositionValue(exit, qty, lev), barsForFunding)
  IN  pnl - exitFee - fundingCost

\* lines 682-684
ExitReason(q) ==
  IF QGt(q, profitThresholdATR) THEN "profit_protection" ELSE "initial_stop"

\* the position opened on bar idx (lines 709-754); side is 1 or -1
OpenPosition(cap, close, sig, side, idx, lev, useRP) ==
  LET prm      == BarParams(useRP, sig.regime)
      margin   == (cap * prm.positionSizePct) \div 100
      entry    == calculateSlippage(close, IF side = 1 THEN "buy" ELSE "sell", sig.atr)
      entryFee == (margin * lev * takerFee) \div RateScale
  IN  [position         |-> side,
       entryPrice       |-> entry,
       positionQty      |-> ((margin - entryFee) * QtyScale) \div entry,
       entryBar         |-> idx,
       trailingStop     |-> calculateDynamicTrailingStop(entry, entry, sig.atr, side,
                                                         sig.regime),
       liquidationPrice |-> calculateLiquidationPrice(entry, lev, Direction(side))]

\* a fault: the test for an open position left out
EntrySideAnyPosition(pos, cap, sig) ==
  IF cap > 0
  THEN IF sig.long THEN 1 ELSE IF sig.short THEN 0 - 1 ELSE 0
  ELSE 0

\* a fault: the test for capital left out
EntrySideAnyCapital(pos, cap, sig) ==
  IF pos = 0
  THEN IF sig.long THEN 1 ELSE IF sig.short THEN 0 - 1 ELSE 0
  ELSE 0

\* line 708-709, 732: which side, if any, is entered
EntrySide(pos, cap, sig) ==
  IF pos = 0 /\ cap > 0
  THEN IF sig.long THEN 1 ELSE IF sig.short THEN 0 - 1 ELSE 0
  ELSE 0

(***************************************************************************)
(* State of one run.                                                       *)
(*   strategyMode, interval, useRegimeParams   arguments of backtest       *)
(*   leverage                                  constructor argument        *)
(*   pc        "loop" inside the bar loop, "done" after the return         *)
(*   i         loop index: the number of candles consumed so far           *)
(*   row, signal   the close of data[i-1] and signals[i-1]                 *)
(*   capital .. regimeLog   the locals of backtest                         *)
(*   newTrailingStop   the candidate of the last managed bar (line 650)    *)
(*   entries   history variable: how many positions were opened            *)
(*   closes    the close column of the data given to calculateMetrics      *)
(*   metrics   the report returned by calculateMetrics                     *)
(*   warnings, passed   the warnings and the result of realityCheck        *)
(* forwardTest runs on the same locals, with entryBar for entryTime and    *)
(* equityCurve for the capitals of equityLog, pc for the place of its      *)
(* polling loop ("fetch", "sleep", "exited"), and                          *)
(*   latest, candle   the exchange: time and content of its latest closed  *)
(*                    candle                                               *)
(*   lastClosedCandleTime   the local of line 907 (0 for null)             *)
(*   handlers  shutdown handlers waiting for their candle fetch            *)
(*   processed history variable: the candles that passed line 922          *)
(* A run may end after any bar: the length of data is chosen by EndOfData. *)
(***************************************************************************)
VARIABLES strategyMode, interval, useRegimeParams, leverage, pc, i, row, signal,
          capital, position, entryPrice, entryBar, trailingStop, positionQty,
          liquidationPrice, maxProfitATR, trades, equityCurve, regimeLog,
          newTrailingStop, entries,
          closes, metrics, warnings, passed,
          latest, candle, lastClosedCandleTime, handlers, processed,
          candles, twin, signals, twinSignals,
          maxWorkers, totalTasks, queue, workers, results, activeWorkers,
          completedTasks, resolved,
          openTrade, lastClose

config   == <<strategyMode, interval, useRegimeParams, leverage>>
posVars  == <<position, entryPrice, entryBar, trailingStop, positionQty,
              liquidationPrice, maxProfitATR>>
reportVars == <<closes, metrics, warnings, passed>>
\* what the bar loop of backtest never touches
liveVars == <<latest, candle, lastClosedCandleTime, handlers, processed>>
\* two candle sequences and the signals generateSignals returns for each
seriesVars == <<candles, twin, signals, twinSignals>>
\* the fields of a WorkerPool, its workers and its promise
poolVars == <<maxWorkers, totalTasks, queue, workers, results, activeWorkers,
              completedTasks, resolved>>
\* the open trade of SEBScalpingStrategy.backtest and the close of the last bar
scalpVars == <<openTrade, lastClose>>
outside  == <<reportVars, liveVars, seriesVars, poolVars, scalpVars>>
vars     == <<strategyMode, interval, useRegimeParams, leverage, pc, i, row, signal,
              capital, position, entryPrice, entryBar, trailingStop, positionQty,
              liquidationPrice, maxProfitATR, trades, equityCurve, regimeLog,
              newTrailingStop, entries,
              closes, metrics, warnings, passed,
              latest, candle, lastClosedCandleTime, handlers, processed,
              candles, twin, signals, twinSignals,
              maxWorkers, totalTasks, queue, workers, results, activeWorkers,
              completedTasks, resolved,
             openTrade, lastClose>>

\* no candle sequence of its own: the bars of a run are drawn one by one
NoSeries ==
  /\ candles = << >>
  /\ twin = << >>
  /\ signals = << >>
  /\ twinSignals = << >>

\* no worker pool
NoPool ==
  /\ maxWorkers = 0
  /\ totalTasks = 0
  /\ queue = << >>
  /\ workers = << >>
  /\ results = << >>
  /\ activeWorkers = 0
  /\ completedTasks = 0
  /\ resolved = << >>

\* no scalping backtest
NoScalp ==
  /\ openTrade = [status |-> "none"]
  /\ lastClose = 0

\* no report yet
NoReport ==
  /\ closes = << >>
  /\ metrics = << >>
  /\ warnings = << >>
  /\ passed = FALSE

\* no forward test
NoLive ==
  /\ latest = 0
  /\ candle = << >>
  /\ lastClosedCandleTime = 0
  /\ handlers = 0
  /\ processed = << >>

Init ==
  /\ strategyMode \in Modes
  /\ interval \in Intervals
  /\ useRegimeParams \in UseRegimeParams
  /\ leverage \in Leverages
  /\ pc = "loop"
  /\ i = 0
  /\ row = 0
  /\ signal = generateSignals(0, strategyMode, interval, AnySnapshot(0))
  /\ capital = initialCapital
  /\ position = 0
  /\ entryPrice = 0
  /\ entryBar = 0
  /\ trailingStop = 0
  /\ positionQty = 0
  /\ liquidationPrice = 0
  /\ maxProfitATR = ZeroQ
  /\ trades = << >>
  /\ equityCurve = << >>
  /\ regimeLog = << >>
  /\ newTrailingStop = 0
  /\ entries = 0
  /\ NoReport
  /\ NoLive
  /\ NoSeries
  /\ NoPool
  /\ NoScalp

\* reading data[i] and signals[i]
ReadBar(b) ==
  /\ pc = "loop"
  /\ row' = b.close
  /\ signal' = b.signal
  /\ i' = i + 1
  /\ UNCHANGED <<config, pc>>

\* the entry block of lines 707-755, reached with position posAfter, capital
\* cap, stop stopAfter and maximum profit maxAfter
EntryBlock(posAfter, cap, stopAfter, maxAfter, b) ==
  LET side == EntrySide(posAfter, cap, b.signal)
      o    == OpenPosition(cap, b.close, b.signal, side, i, leverage, useRegimeParams)
  IN  IF side # 0
      THEN /\ position' = o.position
           /\ entryPrice' = o.entryPrice
           /\ positionQty' = o.positionQty
           /\ entryBar' = o.entryBar
           /\ trailingStop' = o.trailingStop
           /\ liquidationPrice' = o.liquidationPrice
           /\ maxProfitATR' = ZeroQ
           /\ entries' = entries + 1
      ELSE /\ position' = posAfter
           /\ trailingStop' = stopAfter
           /\ maxProfitATR' = maxAfter
           /\ UNCHANGED <<entryPrice, positionQty, entryBar, liquidationPrice, entries>>

\* a fault: the skipped bar leaves no equity point
BarSkippedStepNoEquity(b) ==
  /\ ReadBar(b)
  /\ isNaN(b.signal.atr)
  /\ UNCHANGED <<capital, posVars, trades, equityCurve, regimeLog, newTrailingStop,
                 entries>>

\* lines 592-595: the ATR of the bar is NaN or missing
BarSkippedStep(b) ==
  /\ ReadBar(b)
  /\ isNaN(b.signal.atr)
  /\ equityCurve' = Append(equityCurve, capital)
  /\ UNCHANGED <<capital, posVars, trades, regimeLog, newTrailingStop, entries>>

\* a fault: the continue of line 632 left out, so the entry block and the
\* equity point of the bar follow the liquidation
BarLiquidatedStepThenEntry(b) ==
  /\ ReadBar(b)
  /\ ~isNaN(b.signal.atr)
  /\ position # 0
  /\ LiquidationHit(position, b.close, liquidationPrice)
  /\ LET marginLost == MarginLost(entryPrice, positionQty)
     IN  /\ capital' = capital - marginLost
         /\ trades' = Append(trades,
              [entryTime |-> entryBar, exitTime |-> i,
               direction |-> Direction(position),
               entryPrice |-> entryPrice, exitPrice |-> liquidationPrice,
               barsHeld |-> i - entryBar, pnl |-> 0 - marginLost,
               return |-> FinQ(0 - 1, 1), exitReason |-> "liquidation",
               regime |-> RegimeName(b.signal.regime),
               maxProfitATR |-> ToFixed2(maxProfitATR)])
         /\ EntryBlock(0, capital - marginLost, trailingStop, maxProfitATR, b)
  /\ regimeLog' = Append(regimeLog, RegimeName(b.signal.regime))
  /\ equityCurve' = Append(equityCurve, capital')
  /\ UNCHANGED newTrailingStop

\* lines 607-633: the open position is liquidated; the bar ends there
BarLiquidatedStep(b) ==
  /\ ReadBar(b)
  /\ ~isNaN(b.signal.atr)
  /\ position # 0
  /\ LiquidationHit(position, b.close, liquidationPrice)
  /\ LET marginLost == MarginLost(entryPrice, positionQty)
     IN  /\ capital' = capital - marginLost
         /\ trades' = Append(trades,
              [entryTime |-> entryBar, exitTime |-> i,
               direction |-> Direction(position),
               entryPrice |-> entryPrice, exitPrice |-> liquidationPrice,
               barsHeld |-> i - entryBar, pnl |-> 0 - marginLost,
               return |-> FinQ(0 - 1, 1), exitReason |-> "liquidation",
               regime |-> RegimeName(b.signal.regime),
               maxProfitATR |-> ToFixed2(maxProfitATR)])
  /\ position' = 0
  /\ regimeLog' = Append(regimeLog, RegimeName(b.signal.regime))
  /\ UNCHANGED <<entryPrice, entryBar, trailingStop, positionQty, liquidationPrice,
                 maxProfitATR, equityCurve, newTrailingStop, entries>>

\* lines 636-758: the open position is managed: stop update, stop exit, then
\* the entry block of the same bar
BarManagedStep(b) ==
  /\ ReadBar(b)
  /\ ~isNaN(b.signal.atr)
  /\ position # 0
  /\ ~LiquidationHit(position, b.close, liquidationPrice)
  /\ LET barsHeld    == i - entryBar
         profitInATR == ProfitInATR(b.close, entryPrice, b.signal.atr, position)
         maxP        == MathMaxQ(maxProfitATR, profitInATR)
         newStop     == calculateDynamicTrailingStop(b.close, entryPrice, b.signal.atr,
                                                     position, b.signal.regime)
         stop        == MergeStop(position, trailingStop, newStop)
         exitPrice   == calculateStopSlippage(stop, Direction(position), b.signal.atr)
         netPnl      == NetPnl(position, entryPrice, exitPrice, positionQty, leverage,
                               barsHeld)
     IN  /\ newTrailingStop' = newStop
         /\ IF StopHit(position, b.close, stop)
            THEN /\ capital' = capital + netPnl
                 /\ trades' = Append(trades,
                      [entryTime |-> entryBar, exitTime |-> i,
                       direction |-> Direction(position),
                       entryPrice |-> entryPrice, exitPrice |-> exitPrice,
                       barsHeld |-> barsHeld, pnl |-> netPnl,
                       return |-> Quot(netPnl, MarginLost(entryPrice, positionQty)),
                       exitReason |-> ExitReason(profitInATR),
                       regime |-> RegimeName(b.signal.regime),
                       fundingCost |-> calculateFundingCost(
                           PositionValue(exitPrice, positionQty, leverage), barsHeld),
                       slippage |-> Abs(stop - exitPrice),
                       maxProfitATR |-> ToFixed2(maxP)])
                 /\ EntryBlock(0, capital + netPnl, stop, ZeroQ, b)
            ELSE /\ UNCHANGED <<capital, trades>>
                 /\ EntryBlock(position, capital, stop, maxP, b)
  /\ regimeLog' = Append(regimeLog, RegimeName(b.signal.regime))
  /\ equityCurve' = Append(equityCurve, capital')

\* lines 707-758 with no position open: the entry block alone
BarFlatStep(b) ==
  /\ ReadBar(b)
  /\ ~isNaN(b.signal.atr)
  /\ position = 0
  /\ EntryBlock(position, capital, trailingStop, maxProfitATR, b)
  /\ regimeLog' = Append(regimeLog, RegimeName(b.signal.regime))
  /\ equityCurve' = Append(equityCurve, capital)
  /\ UNCHANGED <<capital, trades, newTrailingStop>>

\* a fault: the last close is recorded in trades but not added to capital
EndOfDataUnbooked ==
  /\ pc = "loop"
  /\ pc' = "done"
  /\ IF position # 0
     THEN LET exitPrice == row
              barsHeld  == i - entryBar
              netPnl    == NetPnl(position, entryPrice, exitPrice, positionQty,
                                  leverage, barsHeld)
          IN  /\ capital' = capital
              /\ trades' = Append(trades,
                   [entryTime |-> entryBar, exitTime |-> i - 1,
                    direction |-> Direction(position),
                    entryPrice |-> entryPrice, exitPrice |-> exitPrice,
                    barsHeld |-> barsHeld, pnl |-> netPnl,
                    return |-> Quot(netPnl, MarginLost(entryPrice, positionQty)),
                    exitReason |-> "end_of_data",
                    regime |-> Last(regimeLog),
                    fundingCost |-> calculateFundingCost(
                        PositionValue(exitPrice, positionQty, leverage), barsHeld),
                    maxProfitATR |-> ToFixed2(maxProfitATR)])
     ELSE UNCHANGED <<capital, trades>>
  /\ UNCHANGED <<config, i, row, signal, posVars, equityCurve, regimeLog,
                 newTrailingStop, entries, outside>>

\* lines 760-791: data.length = i; a position still open is closed at the
\* last close
EndOfData ==
  /\ pc = "loop"
  /\ pc' = "done"
  /\ IF position # 0
     THEN LET exitPrice == row
              barsHeld  == i - entryBar
              netPnl    == NetPnl(position, entryPrice, exitPrice, positionQty,
                                  leverage, barsHeld)
          IN  /\ capital' = capital + netPnl
              /\ trades' = Append(trades,
                   [entryTime |-> entryBar, exitTime |-> i - 1,
                    direction |-> Direction(position),
                    entryPrice |-> entryPrice, exitPrice |-> exitPrice,
                    barsHeld |-> barsHeld, pnl |-> netPnl,
                    return |-> Quot(netPnl, MarginLost(entryPrice, positionQty)),
                    exitReason |-> "end_of_data",
                    regime |-> Last(regimeLog),
                    fundingCost |-> calculateFundingCost(
                        PositionValue(exitPrice, positionQty, leverage), barsHeld),
                    maxProfitATR |-> ToFixed2(maxProfitATR)])
     ELSE UNCHANGED <<capital, trades>>
  /\ UNCHANGED <<config, i, row, signal, posVars, equityCurve, regimeLog,
                 newTrailingStop, entries, outside>>

BarSkipped ==
  /\ \E b \in Series(i, strategyMode, interval) : BarSkippedStep(b)
  /\ UNCHANGED outside
BarLiquidated ==
  /\ \E b \in Series(i, strategyMode, interval) : BarLiquidatedStep(b)
  /\ UNCHANGED outside
BarManaged ==
  /\ \E b \in Series(i, strategyMode, interval) : BarManagedStep(b)
  /\ UNCHANGED outside
BarFlat ==
  /\ \E b \in Series(i, strategyMode, interval) : BarFlatStep(b)
  /\ UNCHANGED outside

Next == BarSkipped \/ BarLiquidated \/ BarManaged \/ BarFlat \/ EndOfData
Spec == Init /\ [][Next]_vars

\* the same run on candle series that hold a position for HoldBars bars
HeldSkipped ==
  /\ \E b \in HeldSeries(i, strategyMode, interval) : BarSkippedStep(b)
  /\ UNCHANGED outside
HeldLiquidated ==
  /\ \E b \in HeldSeries(i, strategyMode, interval) : BarLiquidatedStep(b)
  /\ UNCHANGED outside
HeldManaged ==
  /\ \E b \in HeldSeries(i, strategyMode, interval) : BarManagedStep(b)
  /\ UNCHANGED outside
HeldFlat ==
  /\ \E b \in HeldSeries(i, strategyMode, interval) : BarFlatStep(b)
  /\ UNCHANGED outside

NextHold == HeldSkipped \/ HeldLiquidated \/ HeldManaged \/ HeldFlat \/ EndOfData
SpecHold == Init /\ [][NextHold]_vars

(***************************************************************************)
(* forwardTest (timeframe.cjs 794-1145).  The polling loop and the         *)
(* shutdown handler are coroutines of one thread: each runs from one await *)
(* to the next without interruption.  The loop awaits the candle fetch     *)
(* (pc = "fetch") and the timer (pc = "sleep"); the handler awaits its own *)
(* candle fetch when a position is open.                                   *)
(***************************************************************************)
\* Number of candles that close during a forward test.
MaxCandles == 3

\* Number of SIGINT/SIGTERM signals delivered while a handler is waiting.
MaxSignals == 2

\* rawData.length >= 201 (line 913): data has at least 200 closed candles
MinLiveCandles == 200

LiveCloses == {90 * PriceScale, 100 * PriceScale}
LiveModes  == {"mean_reversion", "momentum"}

\* what a poll can find as data[data.length - 1] and its signal: a candle
\* at or above the history floor, or the last of MinLiveCandles candles
\* when the floor is above it
LiveBars(mode, iv) ==
  { b \in FloorBarsOfMode[mode][iv] : b.signal.regime.range /\ b.close \in LiveCloses }
  \cup (IF HistoryFloor(iv) > MinLiveCandles - 1
        THEN { BarOf(MinLiveCandles - 1, mode, iv, AnySnapshot(100 * PriceScale)) }
        ELSE {})

\* Date.now() - entryTime of the handler, in quarter hours
LiveElapsed == {0, 32}

InitForward ==
  /\ strategyMode \in LiveModes
  /\ interval \in Intervals
  /\ useRegimeParams \in UseRegimeParams
  /\ leverage \in Leverages
  /\ pc = "fetch"
  /\ i = 0
  /\ row = 0
  /\ signal = generateSignals(0, strategyMode, interval, AnySnapshot(0))
  /\ capital = initialCapital
  /\ position = 0
  /\ entryPrice = 0
  /\ entryBar = 0
  /\ trailingStop = 0
  /\ positionQty = 0
  /\ liquidationPrice = 0
  /\ maxProfitATR = ZeroQ
  /\ trades = << >>
  /\ equityCurve = << >>
  /\ regimeLog = << >>
  /\ newTrailingStop = 0
  /\ entries = 0
  /\ NoReport
  /\ latest = 1
  /\ candle \in LiveBars(strategyMode, interval)
  /\ lastClosedCandleTime = 0
  /\ handlers = 0
  /\ processed = << >>
  /\ NoSeries
  /\ NoPool
  /\ NoScalp

\* what forwardTest never touches
offline == <<config, i, regimeLog, reportVars, seriesVars, poolVars, scalpVars>>

\* a fault: a candle as old as the last one processed is taken again
StaleOlderOnly(last, closeTime) == last # 0 /\ closeTime < last

\* line 922: lastClosedCandleTime && latestClosed.closeTime <= lastClosedCandleTime
Stale(last, closeTime) == last # 0 /\ closeTime <= last

\* hoursHeld = (currentTime - entryTime) / (1000 * 60 * 60), in quarter hours
LiveQuarterHours(iv, entryTime, currentTime) ==
  ((currentTime - entryTime) * IntervalMinutes(iv)) \div 15

\* a candle closes at the exchange
CandleCloses ==
  /\ pc # "exited"
  /\ latest < MaxCandles
  /\ latest' = latest + 1
  /\ candle' \in LiveBars(strategyMode, interval)
  /\ UNCHANGED <<offline, pc, row, signal, capital, posVars, trades, equityCurve,
                 newTrailingStop, entries, lastClosedCandleTime, handlers, processed>>

\* lines 915, 923, 937, 1138 and 1142: the timer of the loop fires
TimerFires ==
  /\ pc = "sleep"
  /\ pc' = "fetch"
  /\ UNCHANGED <<offline, row, signal, capital, posVars, trades, equityCurve,
                 newTrailingStop, entries, liveVars>>

\* lines 911-917 and 1140-1143: no data, or an exception in the tick
TickFailed ==
  /\ pc = "fetch"
  /\ pc' = "sleep"
  /\ UNCHANGED <<offline, row, signal, capital, posVars, trades, equityCurve,
                 newTrailingStop, entries, liveVars>>

\* lines 922-925: the latest closed candle is not newer than the last one
TickStale ==
  /\ pc = "fetch"
  /\ Stale(lastClosedCandleTime, latest)
  /\ pc' = "sleep"
  /\ UNCHANGED <<offline, row, signal, capital, posVars, trades, equityCurve,
                 newTrailingStop, entries, liveVars>>

\* lines 927-934: the candle is taken
TakeCandle ==
  /\ pc = "fetch"
  /\ ~Stale(lastClosedCandleTime, latest)
  /\ lastClosedCandleTime' = latest
  /\ processed' = Append(processed, latest)
  /\ row' = candle.close
  /\ signal' = candle.signal
  /\ UNCHANGED <<offline, latest, candle, handlers>>

\* lines 936-939
TickSkipped ==
  /\ TakeCandle
  /\ isNaN(candle.signal.atr)
  /\ pc' = "sleep"
  /\ UNCHANGED <<capital, posVars, trades, equityCurve, newTrailingStop, entries>>

\* lines 953-979: liquidation; continue starts the next poll at once
TickLiquidated ==
  /\ TakeCandle
  /\ ~isNaN(candle.signal.atr)
  /\ position # 0
  /\ LiquidationHit(position, candle.close, liquidationPrice)
  /\ LET marginLost == MarginLost(entryPrice, positionQty)
     IN  /\ capital' = capital - marginLost
         /\ trades' = Append(trades,
              [entryTime |-> entryBar, exitTime |-> latest,
               direction |-> Direction(position),
               entryPrice |-> entryPrice, exitPrice |-> liquidationPrice,
               pnl |-> 0 - marginLost,
               return |-> FinQ(0 - 1, 1), exitReason |-> "liquidation",
               regime |-> RegimeName(candle.signal.regime),
               maxProfitATR |-> ToFixed2(maxProfitATR)])
  /\ position' = 0
  /\ pc' = "fetch"
  /\ UNCHANGED <<entryPrice, entryBar, trailingStop, positionQty, liquidationPrice,
                 maxProfitATR, equityCurve, newTrailingStop, entries>>

\* lines 981-1075 and 1131-1138: the open position is managed; no entry on
\* this branch
TickManaged ==
  /\ TakeCandle
  /\ ~isNaN(candle.signal.atr)
  /\ position # 0
  /\ ~LiquidationHit(position, candle.close, liquidationPrice)
  /\ LET hoursHeld   == LiveQuarterHours(interval, entryBar, latest)
         profitInATR == ProfitInATR(candle.close, entryPrice, candle.signal.atr, position)
         maxP        == MathMaxQ(maxProfitATR, profitInATR)
         newStop     == calculateDynamicTrailingStop(candle.close, entryPrice,
                            candle.signal.atr, position, candle.signal.regime)
         stop        == MergeStop(position, trailingStop, newStop)
         exitPrice   == calculateStopSlippage(stop, Direction(position),
                                              candle.signal.atr)
         netPnl      == NetPnl(position, entryPrice, exitPrice, positionQty, leverage,
                               hoursHeld)
     IN  /\ newTrailingStop' = newStop
         /\ trailingStop' = stop
         /\ IF StopHit(position, candle.close, stop)
            THEN /\ capital' = capital + netPnl
                 /\ trades' = Append(trades,
                      [entryTime |-> entryBar, exitTime |-> latest,
                       direction |-> Direction(position),
                       entryPrice |-> entryPrice, exitPrice |-> exitPrice,
                       pnl |-> netPnl,
                       return |-> Quot(netPnl, MarginLost(entryPrice, positionQty)),
                       exitReason |-> ExitReason(profitInATR),
                       regime |-> RegimeName(candle.signal.regime),
                       fundingCost |-> calculateFundingCost(
                           PositionValue(exitPrice, positionQty, leverage), hoursHeld),
                       slippage |-> Abs(stop - exitPrice),
                       maxProfitATR |-> ToFixed2(maxP)])
                 /\ position' = 0
                 /\ maxProfitATR' = ZeroQ
            ELSE /\ maxProfitATR' = maxP
                 /\ UNCHANGED <<capital, trades, position>>
  /\ equityCurve' = Append(equityCurve, capital')
  /\ pc' = "sleep"
  /\ UNCHANGED <<entryPrice, entryBar, positionQty, liquidationPrice, entries>>

\* lines 1076-1138: no position is open; an entry if capital and signal allow
TickFlat ==
  /\ TakeCandle
  /\ ~isNaN(candle.signal.atr)
  /\ position = 0
  /\ LET side == EntrySide(position, capital, candle.signal)
         o    == OpenPosition(capital, candle.close, candle.signal, side, latest,
                              leverage, useRegimeParams)
     IN  IF side # 0
         THEN /\ position' = o.position
              /\ entryPrice' = o.entryPrice
              /\ positionQty' = o.positionQty
              /\ entryBar' = o.entryBar
              /\ trailingStop' = o.trailingStop
              /\ liquidationPrice' = o.liquidationPrice
              /\ maxProfitATR' = ZeroQ
              /\ entries' = entries + 1
         ELSE UNCHANGED <<posVars, entries>>
  /\ equityCurve' = Append(equityCurve, capital)
  /\ pc' = "sleep"
  /\ UNCHANGED <<capital, trades, newTrailingStop>>

\* lines 903-904 and 827-835, 875-900: SIGINT or SIGTERM starts the
\* handler; with a position open it waits for its candle fetch, else it
\* exits
ShutdownSignal ==
  /\ pc # "exited"
  /\ handlers < MaxSignals
  /\ IF position # 0
     THEN handlers' = handlers + 1 /\ UNCHANGED pc
     ELSE pc' = "exited" /\ UNCHANGED handlers
  /\ UNCHANGED <<offline, row, signal, capital, posVars, trades, equityCurve,
                 newTrailingStop, entries, latest, candle, lastClosedCandleTime,
                 processed>>

\* lines 835-900: the fetch of a waiting handler returns; the handler closes
\* at the latest close what the locals describe now, and exits
ShutdownCloses ==
  /\ pc # "exited"
  /\ handlers > 0
  /\ \E hoursHeld \in LiveElapsed :
       LET exitPrice == candle.close
           netPnl    == NetPnl(position, entryPrice, exitPrice, positionQty, leverage,
                               hoursHeld)
       IN  /\ capital' = capital + netPnl
           /\ trades' = Append(trades,
                [entryTime |-> entryBar, exitTime |-> latest,
                 direction |-> Direction(position),
                 entryPrice |-> entryPrice, exitPrice |-> exitPrice,
                 pnl |-> netPnl,
                 return |-> Quot(netPnl, MarginLost(entryPrice, positionQty)),
                 exitReason |-> "manual_shutdown",
                 regime |-> "UNKNOWN",
                 fundingCost |-> calculateFundingCost(
                     PositionValue(exitPrice, positionQty, leverage), hoursHeld),
                 maxProfitATR |-> ToFixed2(maxProfitATR)])
  /\ position' = 0
  /\ pc' = "exited"
  /\ UNCHANGED <<offline, row, signal, entryPrice, entryBar, trailingStop, positionQty,
                 liquidationPrice, maxProfitATR, equityCurve, newTrailingStop, entries,
                 liveVars>>

NextForward ==
  \/ CandleCloses \/ TimerFires \/ TickFailed \/ TickStale \/ TickSkipped
  \/ TickLiquidated \/ TickManaged \/ TickFlat \/ ShutdownSignal \/ ShutdownCloses
SpecForward == InitForward /\ [][NextForward]_vars

(***************************************************************************)
(* calculateMetrics (timeframe.cjs 1147-1249), on the result of the run.   *)
(***************************************************************************)
\* finalCapital: equityCurve[equityCurve.length - 1], line 1238
finalCapital == Last(equityCurve)

\* arr.reduce((a, b) => a + b, 0)
RECURSIVE SeqSum(_)
SeqSum(arr) == IF Len(arr) = 0 THEN 0 ELSE arr[1] + SeqSum(Tail(arr))

\* Arithmetic on quotients as IEEE doubles do it, exact on finite values
\* (fractions are kept in lowest terms).
RECURSIVE GCD(_, _)
GCD(a, b) == IF b = 0 THEN a ELSE GCD(b, a % b)

Reduced(q) ==
  IF q.kind # "fin" THEN q
  ELSE LET g == GCD(Abs(q.n), q.d) IN FinQ(q.n \div g, q.d \div g)

\* a fault: the peak stays at the first point
RECURSIVE DrawdownScanFixedPeak(_, _, _, _)
DrawdownScanFixedPeak(eq, k, peak, maxDrawdown) ==
  IF k > Len(eq) THEN maxDrawdown
  ELSE LET drawdown == Reduced(Quot(eq[k] - peak, peak))
       IN  DrawdownScanFixedPeak(eq, k + 1, peak,
                        IF drawdown.kind # "nan" /\ ~QLe(maxDrawdown, drawdown)
                        THEN drawdown ELSE maxDrawdown)

\* the drawdown loop of lines 1181-1186; a comparison with NaN is false
RECURSIVE DrawdownScan(_, _, _, _)
DrawdownScan(eq, k, peak, maxDrawdown) ==
  IF k > Len(eq) THEN maxDrawdown
  ELSE LET newPeak  == IF eq[k] > peak THEN eq[k] ELSE peak
           drawdown == Reduced(Quot(eq[k] - newPeak, newPeak))
       IN  DrawdownScan(eq, k + 1, newPeak,
                        IF drawdown.kind # "nan" /\ ~QLe(maxDrawdown, drawdown)
                        THEN drawdown ELSE maxDrawdown)

QNeg(q) == IF q.kind = "nan" THEN q ELSE [q EXCEPT !.n = 0 - q.n]

QAdd(p, q) ==
  CASE p.kind = "nan" \/ q.kind = "nan" -> NaNQ
    [] p.kind = "inf" /\ q.kind = "inf" -> IF p.n = q.n THEN p ELSE NaNQ
    [] p.kind = "inf"                   -> p
    [] q.kind = "inf"                   -> q
    [] OTHER -> Reduced(FinQ(p.n * q.d + q.n * p.d, p.d * q.d))

QSub(p, q) == QAdd(p, QNeg(q))

\* Math.pow(q, 2)
QSquare(q) ==
  CASE q.kind = "nan" -> NaNQ
    [] q.kind = "inf" -> InfQ(1)
    [] OTHER          -> Reduced(FinQ(q.n * q.n, q.d * q.d))

\* q / k for an array length k >= 0
QOver(q, k) ==
  CASE q.kind = "nan" -> NaNQ
    [] k = 0          -> IF q.kind = "inf" THEN q ELSE Quot(q.n, 0)
    [] q.kind = "inf" -> q
    [] OTHER          -> Reduced(FinQ(q.n, q.d * k))

\* arr.reduce((a, b) => a + b, 0) on quotients
RECURSIVE QSum(_)
QSum(arr) == IF Len(arr) = 0 THEN ZeroQ ELSE QAdd(arr[1], QSum(Tail(arr)))

\* DataAnalysis.mean, lines 16-18
mean(arr) == QOver(QSum(arr), Len(arr))

\* the square of DataAnalysis.std, lines 20-24: the variance under the
\* square root, which is zero, NaN or infinite exactly when the root is
variance(arr) ==
  LET m == mean(arr)
  IN  QOver(QSum([k \in 1 .. Len(arr) |-> QSquare(QSub(arr[k], m))]), Len(arr))

\* the bar-to-bar returns of lines 1189-1192
Returns(eq) ==
  [k \in 1 .. Len(eq) - 1 |-> Reduced(Quot(eq[k + 1] - eq[k], eq[k]))]

\* s * sqrt(n / d), n / d > 0 in lowest terms: a non-zero finite value of
\* (meanReturn / stdReturn) * Math.sqrt(252)
SqrtQ(s, n, d) == [kind |-> "sqrt", s |-> s, n |-> n, d |-> d]

\* mean / sqrt(var) * sqrt(252) for a variance that is not zero
SharpeOf(m, var) ==
  CASE m.kind = "nan" \/ var.kind = "nan" -> NaNQ
    [] m.kind = "inf" /\ var.kind = "inf" -> NaNQ
    [] m.kind = "inf"                     -> m
    [] var.kind = "inf"                   -> ZeroQ
    [] m.n = 0                            -> ZeroQ
    [] OTHER ->
         LET sq == Reduced(FinQ(252 * m.n * m.n * var.d, m.d * m.d * var.n))
         IN  SqrtQ(IF m.n > 0 THEN 1 ELSE 0 - 1, sq.n, sq.d)

\* a fault: the test of the standard deviation left out
sharpeRatioUnguarded(eq) ==
  LET returns == Returns(eq)
      var     == variance(returns)
  IN  IF Len(returns) > 0
      THEN (IF var.kind = "fin" /\ var.n = 0
            THEN (IF mean(returns).n = 0 THEN NaNQ ELSE InfQ(mean(returns).n))
            ELSE SharpeOf(mean(returns), var))
      ELSE ZeroQ

\* sharpeRatio, lines 1189-1198
sharpeRatio(eq) ==
  LET returns == Returns(eq)
      var     == variance(returns)
  IN  IF Len(returns) > 0 /\ ~(var.kind = "fin" /\ var.n = 0)
      THEN SharpeOf(mean(returns), var)
      ELSE ZeroQ

\* the report returned for no trades, lines 1149-1159
ZeroReport ==
  [totalTrades |-> 0, winRate |-> ZeroQ, totalReturn |-> ZeroQ, maxDrawdown |-> ZeroQ,
   sharpeRatio |-> ZeroQ, avgSlippage |-> ZeroQ, totalFundingCosts |-> 0,
   liquidations |-> 0, profitProtectedExits |-> 0]

\* lines 1162-1248, for the fields the properties below read; reading
\* data[data.length - 1].close of an empty data throws a TypeError
MetricsReport(tr, eq, data) ==
  LET totalTrades == Len(tr)
      winning     == Cardinality({ k \in 1 .. Len(tr) : tr[k].pnl > 0 })
      losing      == { k \in 1 .. Len(tr) : tr[k].pnl < 0 }
      slipped     == { k \in 1 .. Len(tr) :
                         "slippage" \in DOMAIN tr[k] /\ tr[k].slippage # 0 }
      slippages   == [k \in 1 .. Len(tr) |->
                         IF k \in slipped THEN Abs(tr[k].slippage) ELSE 0]
      fundings    == [k \in 1 .. Len(tr) |->
                         IF "fundingCost" \in DOMAIN tr[k] THEN tr[k].fundingCost ELSE 0]
  IN  IF Len(data) = 0 THEN [threw |-> "TypeError"]
      ELSE [totalTrades   |-> totalTrades,
            winningTrades |-> winning,
            losingTrades  |-> totalTrades - winning,
            winRate       |-> Quot(winning, totalTrades),
            totalPnl      |-> SeqSum([k \in 1 .. Len(tr) |-> tr[k].pnl]),
            totalReturn   |-> IF Len(eq) = 0 THEN NaNQ
                              ELSE Quot(Last(eq) - initialCapital, initialCapital),
            maxDrawdown   |-> IF Len(eq) = 0 THEN ZeroQ
                              ELSE DrawdownScan(eq, 1, eq[1], ZeroQ),
            sharpeRatio   |-> sharpeRatio(eq),
            profitFactor  |-> IF winning > 0 /\ losing # {}
                              THEN Quot(Abs(SeqSum([k \in 1 .. Len(tr) |->
                                              IF tr[k].pnl > 0 THEN tr[k].pnl ELSE 0])),
                                        Abs(SeqSum([k \in 1 .. Len(tr) |->
                                              IF tr[k].pnl < 0 THEN tr[k].pnl ELSE 0])))
                              ELSE ZeroQ,
            buyHoldReturn |-> Quot(Last(data) - data[1], data[1]),
            avgSlippage   |-> IF slipped = {} THEN ZeroQ
                              ELSE Quot(SeqSum(slippages), Cardinality(slipped)),
            totalFundingCosts |-> SeqSum(fundings),
            liquidations  |-> Cardinality({ k \in 1 .. Len(tr) :
                                             tr[k].exitReason = "liquidation" }),
            profitProtectedExits |->
              Cardinality({ k \in 1 .. Len(tr) : tr[k].exitReason = "profit_protection" })]

\* a fault: the guard for no trades left out
calculateMetricsUnguarded(tr, eq, data) == MetricsReport(tr, eq, data)

\* calculateMetrics(trades, equityCurve, data); a missing argument is the
\* string "undefined"
calculateMetrics(tr, eq, data) ==
  IF tr = "undefined" \/ Len(tr) = 0 THEN ZeroReport
  ELSE MetricsReport(tr, eq, data)

(***************************************************************************)
(* realityCheck (timeframe.cjs 1251-1300).  A field the report lacks reads *)
(* as undefined, and every comparison with undefined or NaN is false.      *)
(***************************************************************************)
Has(m, f) == f \in DOMAIN m

\* x > 3.0 on a Sharpe ratio
SharpeAbove3(x) ==
  IF x.kind = "sqrt" THEN x.s > 0 /\ x.n > 9 * x.d ELSE QGt(x, 3 * MultScale)

WinRateHigh(m)      == Has(m, "winRate") /\ QGt(m.winRate, 70)
SharpeHigh(m)       == Has(m, "sharpeRatio") /\ SharpeAbove3(m.sharpeRatio)
DrawdownSmall(m)    == /\ Has(m, "maxDrawdown")
                       /\ m.maxDrawdown.kind = "fin"
                       /\ QLt(FinQ(Abs(m.maxDrawdown.n), m.maxDrawdown.d), 5)
ProfitFactorHigh(m) == Has(m, "profitFactor") /\ QGt(m.profitFactor, 3 * MultScale)
LiquidationsHigh(m) == /\ Has(m, "liquidations") /\ Has(m, "totalTrades")
                       /\ 10 * m.liquidations > m.totalTrades
FundingHigh(m)      == /\ Has(m, "totalFundingCosts") /\ Has(m, "totalPnl")
                       /\ QGt(Quot(m.totalFundingCosts, Abs(m.totalPnl)), 20)

\* the warnings array, in the order of the six tests
Warnings(m) ==
  (IF WinRateHigh(m) THEN <<"winRate">> ELSE << >>) \o
  (IF SharpeHigh(m) THEN <<"sharpeRatio">> ELSE << >>) \o
  (IF DrawdownSmall(m) THEN <<"maxDrawdown">> ELSE << >>) \o
  (IF ProfitFactorHigh(m) THEN <<"profitFactor">> ELSE << >>) \o
  (IF LiquidationsHigh(m) THEN <<"liquidations">> ELSE << >>) \o
  (IF FundingHigh(m) THEN <<"fundingCosts">> ELSE << >>)

\* a fault: the result of the check is always true
realityCheckAlwaysPasses(m) == TRUE

\* return warnings.length === 0
realityCheck(m) == Len(Warnings(m)) = 0

(***************************************************************************)
(* Reports on given results: calculateMetrics(trades, equityCurve, data)   *)
(* followed by realityCheck(metrics), as in lines 1423 and 1464.           *)
(***************************************************************************)
WinTrade     == [pnl |-> 5000, exitReason |-> "profit_protection",
                 fundingCost |-> 100, slippage |-> 30]
BigWinTrade  == [pnl |-> 9000, exitReason |-> "profit_protection",
                 fundingCost |-> 0, slippage |-> 0]
LossTrade    == [pnl |-> 0 - 2000, exitReason |-> "initial_stop",
                 fundingCost |-> 0, slippage |-> 12]
LiquidatedTrade == [pnl |-> 0 - 50000, exitReason |-> "liquidation"]
FundedTrade  == [pnl |-> 1000, exitReason |-> "end_of_data", fundingCost |-> 3000]

TradeLists ==
  { << >>, <<WinTrade>>, <<LossTrade>>, <<LiquidatedTrade>>, <<FundedTrade>>,
    <<WinTrade, LossTrade>>, <<BigWinTrade, LossTrade>>,
    <<WinTrade, WinTrade, WinTrade, LossTrade>> }

\* equity curves of at most MaxCurve points in steps of half the initial
\* capital; the first point of a run is the initial capital
MaxCurve == 4
CurveLevels == { 0, initialCapital \div 2, initialCapital, 3 * (initialCapital \div 2) }
Curves ==
  { << >> } \cup
  UNION { { <<initialCapital>> \o rest : rest \in [1 .. k -> CurveLevels] } :
          k \in 0 .. MaxCurve - 1 }

CloseLists == { <<100 * PriceScale>>, <<100 * PriceScale, 110 * PriceScale>> }

InitMetrics ==
  /\ strategyMode = "mean_reversion"
  /\ interval = "1m"
  /\ useRegimeParams = TRUE
  /\ leverage \in Leverages
  /\ pc = "done"
  /\ i = 0
  /\ row = 0
  /\ signal = generateSignals(0, strategyMode, interval, AnySnapshot(0))
  /\ capital = initialCapital
  /\ position = 0
  /\ entryPrice = 0
  /\ entryBar = 0
  /\ trailingStop = 0
  /\ positionQty = 0
  /\ liquidationPrice = 0
  /\ maxProfitATR = ZeroQ
  /\ trades \in TradeLists
  /\ equityCurve \in Curves
  /\ regimeLog = << >>
  /\ newTrailingStop = 0
  /\ entries = 0
  /\ closes \in CloseLists
  /\ metrics = << >>
  /\ warnings = << >>
  /\ passed = FALSE
  /\ NoLive
  /\ NoSeries
  /\ NoPool
  /\ NoScalp

runVars == <<config, i, row, signal, capital, posVars, trades, equityCurve, regimeLog,
             newTrailingStop, entries, seriesVars, poolVars, scalpVars>>

\* const metrics = backtest.calculateMetrics(trades, equityCurve, data)
Calculate ==
  /\ pc = "done"
  /\ metrics' = calculateMetrics(trades, equityCurve, closes)
  /\ pc' = "reported"
  /\ UNCHANGED <<runVars, closes, warnings, passed, liveVars>>

\* backtest.realityCheck(metrics)
RealityCheck ==
  /\ pc = "reported"
  /\ warnings' = Warnings(metrics)
  /\ passed' = realityCheck(metrics)
  /\ pc' = "checked"
  /\ UNCHANGED <<runVars, closes, metrics, liveVars>>

NextMetrics == Calculate \/ RealityCheck
SpecMetrics == InitMetrics /\ [][NextMetrics]_vars

(***************************************************************************)
(* Properties.                                                             *)
(***************************************************************************)
\* the bar i-1 was managed and left the position open
JustManaged ==
  pc = "loop" /\ position # 0 /\ entryBar < i - 1 /\ ~isNaN(signal.atr)

\* the position was opened on bar i-1
JustEntered == pc = "loop" /\ position # 0 /\ entryBar = i - 1

\* the bar i-1 liquidated the position
JustLiquidated ==
  /\ trades # << >>
  /\ Last(trades).exitReason = "liquidation"
  /\ Last(trades).exitTime = i - 1
  /\ position = 0

\* profit of the open position at the close of bar i-1, in ATR units
CurrentProfitInATR ==
  Quot(IF position = 1 THEN row - entryPrice ELSE entryPrice - row, signal.atr)

\* row -/+ d by direction
StopAt(d) == IF position = 1 THEN row - d ELSE row + d

\* C1: while a position is open its stop only moves in the favourable
\* direction (up for a long, down for a short); after a bar it is either the
\* stop it was or the candidate computed on that bar, so a looser candidate is
\* discarded.
StopNeverLoosens ==
  [][ (position # 0 /\ entries' = entries) =>
        /\ IF position = 1 THEN trailingStop' >= trailingStop
                           ELSE trailingStop' <= trailingStop
        /\ trailingStop' \in {trailingStop, newTrailingStop'} ]_vars

\* a long position kept its stop against a looser candidate
StopNeverLoosensWitness ==
  JustManaged /\ position = 1 /\ newTrailingStop < trailingStop

\* C2: the position is flat, long or short; every position opened is closed
\* by exactly one trade before the next is opened, and after the run the
\* trades are as many as the entries.
OnePositionAtATime ==
  /\ position \in {0 - 1, 0, 1}
  /\ pc = "loop" => entries = Len(trades) + (IF position # 0 THEN 1 ELSE 0)
  /\ pc = "done" => Len(trades) = entries
  /\ \A k \in 1 .. Len(trades) - 1 : trades[k].exitTime <= trades[k + 1].entryTime
  /\ (pc = "loop" /\ position # 0 /\ trades # << >>) => Last(trades).exitTime <= entryBar

\* a finished run with two positions opened and two trades
OnePositionAtATimeWitness ==
  pc = "done" /\ entries = 2 /\ Len(trades) = 2

\* C3: on a processed bar with a position open whose close is at or beyond
\* the liquidation price, the position is closed by one trade with reason
\* liquidation, and neither the stop evaluation nor the entry block runs.
LiquidationBeforeStop ==
  [][ ( /\ pc = "loop" /\ i' = i + 1
        /\ position # 0
        /\ ~isNaN(signal'.atr)
        /\ \/ position = 1 /\ row' <= liquidationPrice
           \/ position = 0 - 1 /\ row' >= liquidationPrice )
      => /\ position' = 0
         /\ Len(trades') = Len(trades) + 1
         /\ Last(trades').exitReason = "liquidation"
         /\ trailingStop' = trailingStop
         /\ newTrailingStop' = newTrailingStop
         /\ entries' = entries ]_vars

\* a liquidation on a bar whose close had also breached the stop
LiquidationBeforeStopWitness ==
  /\ pc = "loop"
  /\ JustLiquidated
  /\ \/ Last(trades).direction = "long" /\ row <= trailingStop
     \/ Last(trades).direction = "short" /\ row >= trailingStop

\* C4: a liquidation records a pnl of minus entry price times quantity, a
\* return of exactly -1 and the liquidation price as exit price, and takes
\* that amount from capital.
LiquidationLosesMargin ==
  [][ (Len(trades') = Len(trades) + 1 /\ Last(trades').exitReason = "liquidation")
      => LET lost == (entryPrice * positionQty) \div QtyScale
         IN  /\ Last(trades').pnl = 0 - lost
             /\ Last(trades').return = [kind |-> "fin", n |-> 0 - 1, d |-> 1]
             /\ capital' = capital - lost
             /\ Last(trades').exitPrice = liquidationPrice
             /\ liquidationPrice' = liquidationPrice ]_vars

\* a short position was liquidated at a loss
LiquidationLosesMarginWitness ==
  JustLiquidated /\ Last(trades).direction = "short" /\ Last(trades).pnl < 0

\* C5: the margin posted for the open position is at most the margin
\* allocated at entry, a fraction of capital, so capital is not negative right
\* after a liquidation.
CapitalNotNegativeAfterLiquidation ==
  /\ (pc = "loop" /\ position # 0) =>
       LET posted == (entryPrice * positionQty) \div QtyScale
       IN  /\ 0 <= posted
           /\ \E r \in Regimes :
                LET margin == (capital * BarParams(useRegimeParams, r).positionSizePct)
                                \div 100
                IN  posted <= margin /\ margin <= capital
  /\ JustLiquidated => capital >= 0

\* part of the capital is left after a liquidation
CapitalNotNegativeAfterLiquidationWitness ==
  JustLiquidated /\ capital > 0 /\ capital < initialCapital

\* C6: the liquidation price is entry x (1 - 1/leverage + rate) for a long and
\* entry x (1 + 1/leverage - rate) for a short; with leverage 10 and entry 100
\* it is 90.4, and no long position survives a processed bar that closes at or
\* below it.
LiquidationPriceFormula ==
  /\ position = 1 =>
       liquidationPrice =
         (entryPrice * (PctScale - (PctScale \div leverage) + 4)) \div PctScale
  /\ position = 0 - 1 =>
       liquidationPrice =
         (entryPrice * (PctScale + (PctScale \div leverage) - 4)) \div PctScale
  /\ calculateLiquidationPrice(100 * PriceScale, 10, "long") = 9040
  /\ JustManaged =>
       IF position = 1 THEN row > liquidationPrice ELSE row < liquidationPrice

\* a long entered at 100.03 with leverage 10 was liquidated at 90.42 by a
\* close of 90
LiquidationPriceFormulaWitness ==
  /\ JustLiquidated
  /\ leverage = 10
  /\ Last(trades).direction = "long"
  /\ Last(trades).entryPrice = 10003
  /\ Last(trades).exitPrice = 9042
  /\ row = 90 * PriceScale

\* the multiplier of the reached tier with the highest threshold, the base
\* multiplier when none is reached
HighestTierTrailATR(q) ==
  LET reached == { k \in 1 .. Len(profitTiers) :
                     CASE q.kind = "fin" -> q.n * MultScale >= profitTiers[k].profitATR * q.d
                       [] q.kind = "inf" -> q.n > 0
                       [] OTHER          -> FALSE }
  IN  IF reached = {} THEN profitTrailingATR
      ELSE LET top == CHOOSE k \in reached :
                        \A j \in reached :
                          profitTiers[j].profitATR <= profitTiers[k].profitATR
           IN  profitTiers[top].trailATR

\* C7: once the profit is not below the threshold, the candidate stop is the
\* close -/+ (multiplier of the highest tier reached) x (profit multiplier of
\* the regime) x ATR, with the base multiplier when no tier is reached.
HighestTierApplies ==
  (JustManaged /\ ~QLt(CurrentProfitInATR, profitThresholdATR)) =>
     newTrailingStop =
       StopAt((HighestTierTrailATR(CurrentProfitInATR)
                 * Multipliers(signal.regime).profit * signal.atr)
                \div (MultScale * MultScale))

\* a managed bar with the second tier reached and the third not
HighestTierAppliesWitness ==
  /\ JustManaged
  /\ signal.atr > 0
  /\ QGe(CurrentProfitInATR, profitTiers[2].profitATR)
  /\ QLt(CurrentProfitInATR, profitTiers[3].profitATR)

\* C8: while the profit is below the threshold the candidate stop is the
\* close -/+ initialStopATR x ATR x (initial multiplier of the regime); at the
\* threshold the tiered distance applies; a position entered at P with ATR a
\* starts with the stop P -/+ initialStopATR x a x initial multiplier.
InitialStopBelowThreshold ==
  /\ (JustManaged /\ QLt(CurrentProfitInATR, profitThresholdATR)) =>
       newTrailingStop =
         StopAt((initialStopATR * signal.atr * Multipliers(signal.regime).initial)
                  \div (MultScale * MultScale))
  /\ JustEntered =>
       LET d == (initialStopATR * signal.atr * Multipliers(signal.regime).initial)
                  \div (MultScale * MultScale)
       IN  trailingStop = IF position = 1 THEN entryPrice - d ELSE entryPrice + d
  /\ calculateDynamicTrailingStop(102 * PriceScale, 100 * PriceScale, 4 * PriceScale, 1,
                                  [bull |-> FALSE, bear |-> FALSE, range |-> TRUE])
       = 102 * PriceScale - (profitTiers[1].trailATR * 80 * 4 * PriceScale)
                              \div (MultScale * MultScale)

\* a managed short position whose profit is below the threshold
InitialStopBelowThresholdWitness ==
  /\ JustManaged
  /\ position = 0 - 1
  /\ signal.atr > 0
  /\ QLt(CurrentProfitInATR, profitThresholdATR)

\* C9: the signal of a bar is never long and short together, in any mode.
NeverLongAndShort == ~(signal.long /\ signal.short)

\* the bounce of the bear_market mode gave a long signal
NeverLongAndShortWitness ==
  pc = "loop" /\ strategyMode = "bear_market" /\ signal.long /\ ~signal.short

\* C10: below bar index max(emaSlow, regimeLookback) the signal is
\* long = false and short = false and no position is opened; a position is
\* opened only on a bar whose ATR and RSI are defined.
NoEntryBelowHistoryFloor ==
  LET prm   == getTimeframeParams(interval)
      floor == IF prm.emaSlow >= prm.regimeLookback THEN prm.emaSlow
               ELSE prm.regimeLookback
  IN  /\ (i >= 1 /\ i - 1 < floor) => (~signal.long /\ ~signal.short /\ entries = 0)
      /\ entries > 0 => /\ entryBar >= floor
                        /\ entryBar >= 1
                        /\ entryBar >= prm.atrPeriod
                        /\ entryBar >= prm.rsiPeriod
      /\ \A k \in 1 .. Len(trades) : trades[k].entryTime >= floor
      /\ JustEntered => ~isNaN(signal.atr)

\* a position opened on the first bar at the floor of the 1h interval
NoEntryBelowHistoryFloorWitness ==
  /\ JustEntered
  /\ interval = "1h"
  /\ entryBar = 200

StopExitAtSlippedStop ==
  [][ LET stop == IF position = 1
                  THEN (IF trailingStop >= newTrailingStop' THEN trailingStop
                        ELSE newTrailingStop')
                  ELSE (IF trailingStop <= newTrailingStop' THEN trailingStop
                        ELSE newTrailingStop')
          slip == (signal'.atr * stopSlippageATRMultiplier) \div MultScale
          exit == IF position = 1
                  THEN (IF stop - slip > 0 THEN stop - slip ELSE 0)
                  ELSE stop + slip
          t    == Last(trades')
      IN  /\ ( /\ pc = "loop" /\ i' = i + 1
               /\ position # 0
               /\ ~isNaN(signal'.atr)
               /\ position = 1 => (row' > liquidationPrice /\ row' <= stop)
               /\ position = 0 - 1 => (row' < liquidationPrice /\ row' >= stop) )
             => /\ Len(trades') = Len(trades) + 1
                /\ t.exitReason \in {"initial_stop", "profit_protection"}
                /\ t.exitTime = i
                /\ t.exitPrice = exit
                /\ t.slippage = (IF stop >= exit THEN stop - exit ELSE exit - stop)
                /\ \/ position' = 0
                   \/ entries' = entries + 1 /\ entryBar' = i
          /\ calculateStopSlippage(PriceScale, "long", 4 * PriceScale) = 0 ]_vars

\* a stop exit with a slipped fill that left the run flat
StopExitAtSlippedStopWitness ==
  /\ pc = "loop"
  /\ position = 0
  /\ trades # << >>
  /\ Last(trades).exitReason = "initial_stop"
  /\ Last(trades).exitTime = i - 1
  /\ Last(trades).slippage > 0

\* the last trade closed the position whose entry price and quantity are
\* still in the locals
LastClosed == trades # << >> /\ (position = 0 \/ pc = "done")

\* exitPrice x positionQty x leverage of a trade of the stored position
ClosedNotional(t) == ((t.exitPrice * positionQty) \div QtyScale) * leverage

\* notional x fundingRate x floor(hoursHeld / 8), hoursHeld = barsHeld x 0.25
\* as backtest computes it
FundingDue(t) ==
  (ClosedNotional(t) * fundingRate * ((t.barsHeld * 25) \div (8 * 100))) \div RateScale

\* (exit - entry) x quantity x leverage, sign by direction
ClosedGross(t) ==
  IF t.direction = "long"
  THEN (((t.exitPrice - entryPrice) * positionQty) \div QtyScale) * leverage
  ELSE (((entryPrice - t.exitPrice) * positionQty) \div QtyScale) * leverage

\* exitPrice x quantity x leverage x takerFee
ClosedExitFee(t) == (ClosedNotional(t) * takerFee) \div RateScale

FundingPerSimulatedHours ==
  (LastClosed /\ "fundingCost" \in DOMAIN Last(trades)) =>
     LET t       == Last(trades)
         minutes == t.barsHeld * IntervalMinutes(interval)
         periods == minutes \div (8 * 60)
     IN  t.fundingCost = (ClosedNotional(t) * fundingRate * periods) \div RateScale

\* C15: a position is opened only on a bar whose signal is long or short,
\* with the state flat at the entry check (flat before the bar, or closed by a
\* stop on that bar) and capital strictly positive; a bar that keeps a
\* position open opens none, and once capital is <= 0 it stays so and no
\* position is opened any more.
EntryOnlyWhenFlatAndFunded ==
  [][ /\ entries' # entries =>
           /\ entries' = entries + 1
           /\ i' = i + 1 /\ entryBar' = i
           /\ signal'.long \/ signal'.short
           /\ \/ position = 0
              \/ /\ Len(trades') = Len(trades) + 1
                 /\ Last(trades').exitReason # "liquidation"
           /\ capital' > 0
      /\ (position # 0 /\ trades' = trades) => entries' = entries
      /\ capital <= 0 => (entries' = entries /\ capital' = capital) ]_vars

\* a bar with a signal opened nothing because capital was not positive
EntryOnlyWhenFlatAndFundedWitness ==
  /\ pc = "loop"
  /\ capital <= 0
  /\ position = 0
  /\ signal.long \/ signal.short
  /\ Len(regimeLog) >= 2
  /\ Last(trades).exitTime < i - 1

\* C16: for a trade closed by a stop or at end of data, capital after the
\* close is capital before the entry plus the gross price pnl, minus the entry
\* fee charged at open (margin x leverage x takerFee), minus the exit fee,
\* minus the funding cost.  Capital does not change between the entry and the
\* close, so capital before the close is capital before the entry.
EveryFeeReducesCapital ==
  [][ (Len(trades') = Len(trades) + 1 /\ Last(trades').exitReason # "liquidation")
      => LET t == Last(trades')
         IN  \E r \in Regimes :
               LET margin   == (capital * BarParams(useRegimeParams, r).positionSizePct)
                                 \div 100
                   entryFee == (margin * leverage * takerFee) \div RateScale
               IN  capital' = capital + ClosedGross(t) - entryFee - ClosedExitFee(t)
                                - FundingDue(t) ]_vars

\* C17: when the data ends with a position open, one more trade is appended,
\* with reason end_of_data and the last close as exit price, and the final
\* equity (the last equity point, finalCapital) is the capital before that
\* close plus the pnl of that trade.
EndOfDataCloseInFinalEquity ==
  [][ (pc = "loop" /\ pc' = "done" /\ position # 0)
      => /\ Len(trades') = Len(trades) + 1
         /\ Last(trades').exitReason = "end_of_data"
         /\ Last(trades').exitPrice = row
         /\ finalCapital' = capital + Last(trades').pnl ]_vars

\* a report with totalTrades = 0 and every ratio of the claim equal to 0
AllZero(r) ==
  /\ "threw" \notin DOMAIN r
  /\ r.totalTrades = 0
  /\ \A q \in {r.winRate, r.totalReturn, r.maxDrawdown, r.sharpeRatio, r.avgSlippage} :
       q = [kind |-> "fin", n |-> 0, d |-> 1]
  /\ r.totalFundingCosts = 0
  /\ r.liquidations = 0
  /\ r.profitProtectedExits = 0

\* equity curves and price series given to calculateMetrics with no trades,
\* besides those of the run
EquitySamples ==
  { << >>, <<0>>, <<initialCapital>>, <<initialCapital, 0>>,
    <<initialCapital, initialCapital + 1>> }
DataSamples == { << >>, <<100 * PriceScale>>, <<0, 100 * PriceScale>> }

\* C20: for an empty or missing trade list calculateMetrics returns
\* totalTrades = 0 and winRate, totalReturn, maxDrawdown, sharpeRatio,
\* avgSlippage, totalFundingCosts, liquidations, profitProtectedExits all 0,
\* for any equity curve and price series, the empty ones included, with no
\* NaN and no exception; so does the report of a run that made no trade.
NoTradesZeroReport ==
  /\ \A eq \in EquitySamples \cup {equityCurve} :
       \A data \in DataSamples \cup {<<row>>} :
         /\ AllZero(calculateMetrics(<< >>, eq, data))
         /\ AllZero(calculateMetrics("undefined", eq, data))
  /\ (pc = "done" /\ trades = << >>) =>
       AllZero(calculateMetrics(trades, equityCurve, <<row>>))

\* a run over bars past the history floor ended without a trade
NoTradesZeroReportWitness ==
  /\ pc = "done"
  /\ trades = << >>
  /\ Len(equityCurve) > HistoryFloor(interval)

\* C18: every candle, on every path through the loop (skipped, liquidated,
\* stopped out, entered, no action), adds exactly one point to the equity
\* curve: after i bars the curve has i points, the last one the capital
\* after that bar.
OneEquityPointPerCandle ==
  /\ Len(equityCurve) = i
  /\ (pc = "loop" /\ i >= 1) => Last(equityCurve) = capital

\* gross profit of the open position marked at the latest close
UnrealizedPnl ==
  IF position = 1
  THEN (((row - entryPrice) * positionQty) \div QtyScale) * leverage
  ELSE (((entryPrice - row) * positionQty) \div QtyScale) * leverage

\* C19: each equity point is the capital including the unrealized profit
\* or loss of the open position at that bar's close.
EquityPointMarksToMarket ==
  (pc = "loop" /\ i >= 1 /\ position # 0 /\ Len(equityCurve) = i) =>
    Last(equityCurve) = capital + UnrealizedPnl

\* a report of calculateMetrics on a non-empty trade list is at hand
Reported == pc \in {"reported", "checked"} /\ Len(trades) > 0

\* the equity curve in units of half the initial capital
CurvePoint(k) == equityCurve[k] \div (initialCapital \div 2)

\* the product of the first k points: a common denominator of the first k
\* returns
RECURSIVE CurveProduct(_)
CurveProduct(k) == IF k = 0 THEN 1 ELSE CurvePoint(k) * CurveProduct(k - 1)

\* the k-th return over the common denominator of all of them
ReturnOver(k) ==
  (CurvePoint(k + 1) - CurvePoint(k)) *
  (CurveProduct(Len(equityCurve) - 1) \div CurvePoint(k))

\* the sum of the returns, and of the squares of their distances to the
\* mean, in units that make both integers
ReturnSum == SeqSum([k \in 1 .. Len(equityCurve) - 1 |-> ReturnOver(k)])
ReturnSpread ==
  SeqSum([k \in 1 .. Len(equityCurve) - 1 |->
            ((Len(equityCurve) - 1) * ReturnOver(k) - ReturnSum) *
            ((Len(equityCurve) - 1) * ReturnOver(k) - ReturnSum)])

\* C21: for a non-empty trade list the reported sharpeRatio is 0 when the
\* equity curve has fewer than two returns (0, 1 or 2 points) or their
\* standard deviation is zero, and mean/stdev * sqrt(252) of the bar-to-bar
\* returns otherwise (NaN as soon as one return is not finite).
SharpeRatioOfReturns ==
  Reported =>
    LET n == Len(equityCurve) - 1
        finite == \A k \in 1 .. n : CurvePoint(k) # 0
    IN  IF n < 2 THEN metrics.sharpeRatio = ZeroQ
        ELSE IF ~finite THEN metrics.sharpeRatio = NaNQ
        ELSE IF ReturnSpread = 0 \/ ReturnSum = 0 THEN metrics.sharpeRatio = ZeroQ
        ELSE LET sq == Reduced(FinQ(252 * n * ReturnSum * ReturnSum, ReturnSpread))
             IN  metrics.sharpeRatio =
                   SqrtQ(IF ReturnSum > 0 THEN 1 ELSE 0 - 1, sq.n, sq.d)

\* a report on a curve of two different points: one return, no deviation
SharpeRatioOfReturnsWitness ==
  /\ Reported
  /\ Len(equityCurve) = 2
  /\ equityCurve[2] # equityCurve[1]
  /\ metrics.sharpeRatio = ZeroQ

\* the highest equity at or before point k
PeakAt(k) ==
  CHOOSE p \in { equityCurve[j] : j \in 1 .. k } :
    \A j \in 1 .. k : equityCurve[j] <= p

Exceeds(q, a, b) ==
  CASE q.kind = "fin"  -> q.n * b > a * q.d
    [] q.kind = "inf"  -> q.n > 0
    [] q.kind = "sqrt" -> q.s > 0 /\ q.n * b * b > a * a * q.d
    [] OTHER           -> FALSE

\* the six warning conditions, read off a report m
WarningConditions(m) ==
  { c \in {"winRate", "sharpeRatio", "maxDrawdown", "profitFactor", "liquidations",
           "fundingCosts"} :
      CASE c = "winRate"      -> Exceeds(m.winRate, 7, 10)
        [] c = "sharpeRatio"  -> Exceeds(m.sharpeRatio, 3, 1)
        [] c = "maxDrawdown"  -> /\ m.maxDrawdown.kind = "fin"
                                 /\ 20 * Abs(m.maxDrawdown.n) < m.maxDrawdown.d
        [] c = "profitFactor" -> "profitFactor" \in DOMAIN m /\ Exceeds(m.profitFactor, 3, 1)
        [] c = "liquidations" -> 10 * m.liquidations > m.totalTrades
        [] OTHER              -> /\ "totalPnl" \in DOMAIN m
                                 /\ 5 * m.totalFundingCosts > Abs(m.totalPnl) }

\* C23: realityCheck leaves every field of the report as it was, whichever
\* of the six warning conditions fire (win rate > 70%, Sharpe > 3,
\* |drawdown| < 5%, profit factor > 3, liquidations > 10% of the trades,
\* funding > 20% of |PnL|), and returns true exactly when none fires.
RealityCheckOnlyReads ==
  [][(pc = "reported" /\ pc' = "checked") =>
       /\ metrics' = metrics
       /\ passed' = (WarningConditions(metrics) = {})
       /\ Len(warnings') = Cardinality(WarningConditions(metrics))]_vars

\* a report on a non-empty trade list went through the check without a
\* warning
RealityCheckOnlyReadsWitness ==
  /\ pc = "checked"
  /\ Len(trades) > 0
  /\ passed
  /\ metrics.totalTrades = Len(trades)

\* the trading state of forwardTest
tradingState == <<capital, posVars, trades, equityCurve>>

\* C24: forwardTest feeds a closed candle to the position logic only when
\* its closeTime is later than that of the candle processed before: the
\* processed candles are in strictly increasing time order, none twice, and
\* a poll that finds the same latest closed candle changes no trading state.
CandleProcessedOnce ==
  [][/\ \A k \in 1 .. Len(processed') - 1 : processed'[k] < processed'[k + 1]
     /\ (pc = "fetch" /\ pc' # "exited" /\ latest = lastClosedCandleTime) =>
          UNCHANGED <<tradingState, lastClosedCandleTime, processed>>
     /\ (pc' # "exited" /\ tradingState' # tradingState) =>
          /\ latest > lastClosedCandleTime
          /\ lastClosedCandleTime' = latest]_vars

\* two candles were processed, a position is open and the poll under way
\* will find the second of them again
CandleProcessedOnceWitness ==
  /\ pc = "fetch"
  /\ Len(processed) = 2
  /\ lastClosedCandleTime = latest
  /\ position # 0

\* C25: once the shutdown handler of forwardTest has started, the polling
\* loop processes no further tick: no liquidation, stop update, stop exit
\* or entry changes capital, position, stop or the trade list while a
\* handler waits for its candle fetch.
NoTickAfterShutdown ==
  [][(handlers > 0 /\ pc' # "exited") =>
       UNCHANGED <<capital, position, trailingStop, trades>>]_vars

\* C26: a position open when the shutdown signal arrives is force-closed
\* exactly once before the process exits: at the exit no position is open
\* and every position opened has exactly one trade, under every
\* interleaving with a polling tick and with a second signal.
ShutdownClosesOnce ==
  pc = "exited" => (position = 0 /\ Len(trades) = entries)

\* What the body of the bar loop of backtest (lines 592-757) makes of the
\* locals on bar b, barsHeld bars after the entry: capital, position, stop,
\* and the trade it closes, if any.
BarOutcome(b, barsHeld) ==
  LET sig == b.signal
      flat(cap, stop, closed) ==
        LET side == EntrySide(0, cap, sig)
            o    == OpenPosition(cap, b.close, sig, side, 0, leverage, useRegimeParams)
        IN  [capital |-> cap, position |-> side,
             trailingStop |-> IF side # 0 THEN o.trailingStop ELSE stop,
             closed |-> closed]
  IN  IF isNaN(sig.atr)
      THEN [capital |-> capital, position |-> position, trailingStop |-> trailingStop,
            closed |-> << >>]
      ELSE IF position # 0 /\ LiquidationHit(position, b.close, liquidationPrice)
      THEN [capital |-> capital - MarginLost(entryPrice, positionQty), position |-> 0,
            trailingStop |-> trailingStop,
            closed |-> <<[exitPrice |-> liquidationPrice,
                          pnl |-> 0 - MarginLost(entryPrice, positionQty),
                          exitReason |-> "liquidation"]>>]
      ELSE IF position # 0
      THEN LET profitInATR == ProfitInATR(b.close, entryPrice, sig.atr, position)
               stop == MergeStop(position, trailingStop,
                         calculateDynamicTrailingStop(b.close, entryPrice, sig.atr,
                                                      position, sig.regime))
               exitPrice == calculateStopSlippage(stop, Direction(position), sig.atr)
               netPnl == NetPnl(position, entryPrice, exitPrice, positionQty, leverage,
                                barsHeld)
           IN  IF StopHit(position, b.close, stop)
               THEN flat(capital + netPnl, stop,
                         <<[exitPrice |-> exitPrice, pnl |-> netPnl,
                            exitReason |-> ExitReason(profitInATR)]>>)
               ELSE [capital |-> capital, position |-> position, trailingStop |-> stop,
                     closed |-> << >>]
      ELSE flat(capital, trailingStop, << >>)

\* C27: a tick of forwardTest makes of a bar (close, ATR, regime, signal)
\* what the bar loop of backtest makes of it: the same position, stop,
\* capital and closed trade, also on a bar where the stop is hit and the
\* signal asks for an entry.
TickAsBacktestBar ==
  [][lastClosedCandleTime' # lastClosedCandleTime =>
       LET o == BarOutcome(candle, latest - entryBar)
       IN  /\ capital' = o.capital
           /\ position' = o.position
           /\ trailingStop' = o.trailingStop
           /\ Len(trades') = Len(trades) + Len(o.closed)
           /\ o.closed # << >> =>
                /\ Last(trades').exitPrice = o.closed[1].exitPrice
                /\ Last(trades').pnl = o.closed[1].pnl
                /\ Last(trades').exitReason = o.closed[1].exitReason]_vars

\* C28: backtest given no candles ends in an error reported to the caller;
\* it does not return a normal result with no trade and no equity point.
EmptyDataIsAnError ==
  ~(pc = "done" /\ i = 0 /\ trades = << >> /\ equityCurve = << >>)

\* ---------------------------------------------------------------------------
\* Any configuration the constructor accepts: the leverage is stored as given
\* ---------------------------------------------------------------------------
ConstructorLeverages == Leverages \cup {-1}

InitConfigured ==
  /\ strategyMode \in Modes
  /\ interval \in Intervals
  /\ useRegimeParams \in UseRegimeParams
  /\ leverage \in ConstructorLeverages
  /\ pc = "loop"
  /\ i = 0
  /\ row = 0
  /\ signal = generateSignals(0, strategyMode, interval, AnySnapshot(0))
  /\ capital = initialCapital
  /\ position = 0
  /\ entryPrice = 0
  /\ entryBar = 0
  /\ trailingStop = 0
  /\ positionQty = 0
  /\ liquidationPrice = 0
  /\ maxProfitATR = ZeroQ
  /\ trades = << >>
  /\ equityCurve = << >>
  /\ regimeLog = << >>
  /\ newTrailingStop = 0
  /\ entries = 0
  /\ NoReport
  /\ NoLive
  /\ NoSeries
  /\ NoPool
  /\ NoScalp

SpecConfigured == InitConfigured /\ [][Next]_vars

\* C29: a run configured with a zero or negative leverage is rejected before it
\* starts: no bar is simulated and no trade or equity point is produced.
BadLeverageRejected ==
  leverage <= 0 => (i = 0 /\ trades = << >> /\ equityCurve = << >>)

(***************************************************************************)
(* The indicators over a whole candle sequence, as generateSignals         *)
(* computes them before the bar loop reads signals[i].  A candle is a      *)
(* record [close, high, low, volume] in 1/PriceScale; data[k] of the code, *)
(* which counts from 0, is d[k + 1].  The mean true range and the EMAs are *)
(* kept in 1/PriceScale and the RSI in whole percent, rounded down.        *)
(***************************************************************************)
At(d, k) == d[k + 1]

\* Math.max(t1, t2, t3) of candle j, lines 372-375
TrueRange(d, j) ==
  LET t1 == At(d, j).high - At(d, j).low
      t2 == IF j > 0 THEN Abs(At(d, j).high - At(d, j - 1).close) ELSE 0
      t3 == IF j > 0 THEN Abs(At(d, j).low - At(d, j - 1).close) ELSE 0
  IN  Max(t1, Max(t2, t3))

RECURSIVE TrueRangeSum(_, _, _)
TrueRangeSum(d, lo, hi) ==
  IF lo > hi THEN 0 ELSE TrueRange(d, hi) + TrueRangeSum(d, lo, hi - 1)

\* DataAnalysis.mean(trSlice) over j = i - atrPeriod + 1 .. i, lines 369-377
MeanTrueRange(d, iv, k) ==
  LET atrPeriod == getTimeframeParams(iv).atrPeriod
  IN  IF k >= atrPeriod
      THEN TrueRangeSum(d, k - atrPeriod + 1, k) \div atrPeriod
      ELSE 0

\* the rises of the close over j = lo .. hi, line 394
RECURSIVE GainSum(_, _, _)
GainSum(d, lo, hi) ==
  IF lo > hi THEN 0
  ELSE LET change == At(d, hi).close - At(d, hi - 1).close
       IN  (IF change > 0 THEN change ELSE 0) + GainSum(d, lo, hi - 1)

\* the falls of the close over j = lo .. hi, line 395
RECURSIVE LossSum(_, _, _)
LossSum(d, lo, hi) ==
  IF lo > hi THEN 0
  ELSE LET change == At(d, hi).close - At(d, hi - 1).close
       IN  (IF change > 0 THEN 0 ELSE Abs(change)) + LossSum(d, lo, hi - 1)

\* a fault: the window of rsi[i] reaches the candle after i when there is one
calculateRSIAhead(d, iv, k) ==
  LET rsiPeriod == getTimeframeParams(iv).rsiPeriod
      hi     == Min(k + 1, Len(d) - 1)
      gains  == GainSum(d, hi - rsiPeriod + 1, hi)
      losses == LossSum(d, hi - rsiPeriod + 1, hi)
  IN  IF k < rsiPeriod THEN NaN
      ELSE IF losses = 0 THEN 100
      ELSE (100 * gains) \div (gains + losses)

\* rsi[i]: 100 - 100 / (1 + avgGain / avgLoss) = 100 * gains / (gains + losses)
calculateRSI(d, iv, k) ==
  LET rsiPeriod == getTimeframeParams(iv).rsiPeriod
      hi     == k
      gains  == GainSum(d, hi - rsiPeriod + 1, hi)
      losses == LossSum(d, hi - rsiPeriod + 1, hi)
  IN  IF k < rsiPeriod THEN NaN
      ELSE IF losses = 0 THEN 100
      ELSE (100 * gains) \div (gains + losses)

\* the loop of DataAnalysis.ema, result being the values written so far
RECURSIVE emaLoop(_, _, _)
emaLoop(values, period, result) ==
  IF Len(result) >= Len(values) THEN result
  ELSE emaLoop(values, period,
               Append(result, EmaStep(values[Len(result) + 1], Last(result), period)))

\* DataAnalysis.ema: result[0] = data[0], undefined when there is no candle
ema(values, period) ==
  IF values = << >> THEN <<NaN>> ELSE emaLoop(values, period, <<values[1]>>)

calculateEMA(d, period) == ema([n \in 1 .. Len(d) |-> d[n].close], period)

RECURSIVE CloseSum(_, _, _)
CloseSum(d, lo, hi) ==
  IF lo > hi THEN 0 ELSE At(d, hi).close + CloseSum(d, lo, hi - 1)

\* regimes[i] of detectRegime for i >= regimeLookback.  The two means are
\* over regimeLookback + 1 closes each, so smaSlope = (sum - sumBefore) / sum;
\* the thresholds are 0.05 and 0.002 for minutes, 0.10 and 0.001 otherwise
RegimeAt(d, iv, k) ==
  LET regimeLookback == getTimeframeParams(iv).regimeLookback
      change    == At(d, k).close - At(d, k - regimeLookback).close
      base      == At(d, k - regimeLookback).close
      sum       == CloseSum(d, Max(0, k - regimeLookback), k)
      sumBefore == CloseSum(d, k - regimeLookback - 5, k - 5)
      slope     == IF k >= regimeLookback + 5 THEN sum - sumBefore ELSE 0
      perChange == IF IncludesM(iv) THEN 20 ELSE 10
      perSlope  == IF IncludesM(iv) THEN 500 ELSE 1000
      bull == perChange * change > base /\ perSlope * slope > sum
      bear == perChange * change < 0 - base /\ perSlope * slope < 0 - sum
  IN  IF k < regimeLookback
      THEN [bull |-> FALSE, bear |-> FALSE, range |-> TRUE]
      ELSE [bull |-> bull, bear |-> bear, range |-> ~bull /\ ~bear]

RECURSIVE HighMax(_, _, _)
HighMax(d, lo, hi) ==
  IF lo >= hi THEN At(d, hi).high ELSE Max(At(d, hi).high, HighMax(d, lo, hi - 1))

RECURSIVE LowMin(_, _, _)
LowMin(d, lo, hi) ==
  IF lo >= hi THEN At(d, hi).low ELSE Min(At(d, hi).low, LowMin(d, lo, hi - 1))

\* interval.includes('m') ? 10 : 20, line 456
breakoutLookback(iv) == IF IncludesM(iv) THEN 10 ELSE 20

\* what the callback of data.map reads for bar k >= 1: data[k], data[k-1],
\* the indicator arrays at k and k-1 and the window slice(k - lookback, k)
SnapshotAt(d, iv, k, emaFast, emaMedium, emaSlow) ==
  LET from == IF k >= breakoutLookback(iv) THEN k - breakoutLookback(iv) ELSE 0
  IN  [close |-> At(d, k).close, prevClose |-> At(d, k - 1).close,
       volume |-> At(d, k).volume, prevVolume |-> At(d, k - 1).volume,
       tr |-> MeanTrueRange(d, iv, k),
       rsi |-> calculateRSI(d, iv, k), prevRsi |-> calculateRSI(d, iv, k - 1),
       emaFastPrev |-> At(emaFast, k - 1), emaMedium |-> At(emaMedium, k),
       emaSlow |-> At(emaSlow, k),
       recentHigh |-> HighMax(d, from, k - 1), recentLow |-> LowMin(d, from, k - 1),
       regime |-> RegimeAt(d, iv, k)]

\* generateSignals(data, strategyMode, interval): the array it returns
generateSignalsOf(d, mode, iv) ==
  LET params    == getTimeframeParams(iv)
      emaFast   == calculateEMA(d, params.emaFast)
      emaMedium == calculateEMA(d, params.emaMedium)
      emaSlow   == calculateEMA(d, params.emaSlow)
  IN  [n \in 1 .. Len(d) |->
        IF n - 1 < HistoryFloor(iv)
        THEN [long |-> FALSE, short |-> FALSE]
        ELSE LET s == SnapshotAt(d, iv, n - 1, emaFast, emaMedium, emaSlow)
                 g == generateSignals(n - 1, mode, iv, s)
             IN  [long |-> g.long, short |-> g.short, atr |-> g.atr,
                  rsi |-> s.rsi, emaFast |-> emaFast[n], emaMedium |-> emaMedium[n],
                  emaSlow |-> emaSlow[n], regime |-> g.regime]]

(***************************************************************************)
(* Two downloads of the same market: candle sequences that share their     *)
(* first candles and go on apart.  Each arrival is followed by             *)
(* generateSignals over the whole sequence, as backtest and forwardTest    *)
(* call it.                                                                *)
(***************************************************************************)
\* candles appended to the history
MaxTail == 2

SignalIntervals == {"1m"}

CandleAt(c) == [close |-> c, high |-> c + PriceScale, low |-> c - PriceScale,
                volume |-> 100]

\* the close of candle n of a history: flat, rising or falling by half a unit a bar
Histories ==
  { [n \in 1 .. HistoryFloor(iv) |-> CandleAt(100 * PriceScale + step * (n - 1))] :
      iv \in SignalIntervals, step \in {0, 50, -50} }

ArrivingCandles ==
  { CandleAt(c) : c \in {95 * PriceScale, 128 * PriceScale} }

InitSignals ==
  /\ strategyMode \in Modes
  /\ interval \in SignalIntervals
  /\ useRegimeParams \in UseRegimeParams
  /\ leverage \in Leverages
  /\ pc = "signals"
  /\ i = 0
  /\ row = 0
  /\ signal = generateSignals(0, strategyMode, interval, AnySnapshot(0))
  /\ capital = initialCapital
  /\ position = 0
  /\ entryPrice = 0
  /\ entryBar = 0
  /\ trailingStop = 0
  /\ positionQty = 0
  /\ liquidationPrice = 0
  /\ maxProfitATR = ZeroQ
  /\ trades = << >>
  /\ equityCurve = << >>
  /\ regimeLog = << >>
  /\ newTrailingStop = 0
  /\ entries = 0
  /\ NoReport
  /\ NoLive
  /\ NoPool
  /\ NoScalp
  /\ candles \in { h \in Histories : Len(h) = HistoryFloor(interval) }
  /\ twin = candles
  /\ signals = generateSignalsOf(candles, strategyMode, interval)
  /\ twinSignals = signals

\* a candle more in the first sequence
CandleArrives ==
  /\ pc = "signals"
  /\ Len(candles) < HistoryFloor(interval) + MaxTail
  /\ \E c \in ArrivingCandles :
       /\ candles' = Append(candles, c)
       /\ signals' = generateSignalsOf(candles', strategyMode, interval)
  /\ UNCHANGED <<config, pc, i, row, signal, capital, posVars, trades, equityCurve,
                 regimeLog, newTrailingStop, entries, reportVars, liveVars, poolVars, scalpVars,
                 twin, twinSignals>>

\* a candle more in the second
TwinArrives ==
  /\ pc = "signals"
  /\ Len(twin) < HistoryFloor(interval) + MaxTail
  /\ \E c \in ArrivingCandles :
       /\ twin' = Append(twin, c)
       /\ twinSignals' = generateSignalsOf(twin', strategyMode, interval)
  /\ UNCHANGED <<config, pc, i, row, signal, capital, posVars, trades, equityCurve,
                 regimeLog, newTrailingStop, entries, reportVars, liveVars, poolVars, scalpVars,
                 candles, signals>>

NextSignals == CandleArrives \/ TwinArrives
SpecSignals == InitSignals /\ [][NextSignals]_vars

\* the two sequences are the same at every index up to k
Agree(k) ==
  /\ k < Len(candles) /\ k < Len(twin)
  /\ \A j \in 0 .. k : At(candles, j) = At(twin, j)

\* atr[k], rsi[k], the three EMAs at k and regimes[k], for every k of a
\* sequence: the arrays generateSignals builds at lines 448-453
IndicatorRows(d, iv, emaFast, emaMedium, emaSlow) ==
  [n \in 1 .. Len(d) |->
     <<calculateATR(n - 1, iv, MeanTrueRange(d, iv, n - 1)), calculateRSI(d, iv, n - 1),
       emaFast[n], emaMedium[n], emaSlow[n], RegimeAt(d, iv, n - 1)>>]

Indicators(d, iv) ==
  LET params == getTimeframeParams(iv)
  IN  CHOOSE rows \in { IndicatorRows(d, iv, e[1], e[2], e[3]) :
                          e \in { <<calculateEMA(d, params.emaFast),
                                    calculateEMA(d, params.emaMedium),
                                    calculateEMA(d, params.emaSlow)>> } } : TRUE

\* C30: no look-ahead: for two candle sequences that agree on every index up
\* to k, the ATR, the RSI, the EMAs, the regime and the long and short signal
\* at k are the same, whatever comes after k in either.
NoLookAhead ==
  \A a \in {Indicators(candles, interval)}, b \in {Indicators(twin, interval)} :
    \A k \in 0 .. (Len(candles) - 1) :
      Agree(k) => (At(signals, k) = At(twinSignals, k) /\ At(a, k) = At(b, k))

\* the sequences part after an index at the history floor or above where a
\* signal is raised
NoLookAheadWitness ==
  \E k \in HistoryFloor(interval) .. (Len(candles) - 2) :
    /\ Agree(k)
    /\ k + 1 < Len(twin)
    /\ At(candles, k + 1) # At(twin, k + 1)
    /\ (At(signals, k).long \/ At(signals, k).short)

\* the trade a step appends, if it appends one
Closed == Len(trades') = Len(trades) + 1
StopReasons == {"initial_stop", "profit_protection"}

\* C32: within one bar backtest evaluates liquidation, then the stop, then the
\* entry: a trade closed by liquidation or stop was opened on an earlier bar;
\* after a stop exit the entry block of the same bar runs on the flat state;
\* after a liquidation neither the stop logic nor the entry block runs.
BarOrder ==
  [][ Closed =>
        LET t      == Last(trades')
            wanted == capital' > 0 /\ (signal'.long \/ signal'.short)
        IN  /\ t.exitReason # "end_of_data" => t.entryTime < t.exitTime
            /\ t.exitReason \in StopReasons =>
                 IF wanted
                 THEN position' # 0 /\ entryBar' = t.exitTime /\ entries' = entries + 1
                 ELSE position' = 0 /\ entries' = entries
            /\ t.exitReason = "liquidation" =>
                 /\ position' = 0 /\ entries' = entries
                 /\ trailingStop' = trailingStop
                 /\ newTrailingStop' = newTrailingStop ]_vars

\* a stop exit and an entry on the same bar
BarOrderWitness ==
  /\ pc = "loop" /\ trades # << >>
  /\ Last(trades).exitReason \in StopReasons
  /\ position # 0 /\ entryBar = Last(trades).exitTime

RegimeOfBar(idx) == regimeLog[idx - HistoryFloor(interval) + 1]

\* C34: the regime recorded on every trade is the market regime of the bar on
\* which the position was entered.
RegimeAtEntryRecorded ==
  \A k \in 1 .. Len(trades) : trades[k].regime = RegimeOfBar(trades[k].entryTime)

\* the pnl of the trades recorded so far
PnlOf(trs) == [k \in 1 .. Len(trs) |-> trs[k].pnl]

\* C36: accounting is conserved in backtest: after every bar and after the
\* end-of-data close capital is initialCapital plus the pnl of all trades
\* recorded so far, and capital changes only when a trade is appended, by that
\* trade's pnl.
CapitalIsBookedPnl ==
  [][ /\ capital' = capital + (IF Closed THEN Last(trades').pnl ELSE 0)
      /\ capital' = initialCapital + SeqSum(PnlOf(trades')) ]_vars

\* a run ended with two trades or more, the last closed at the end of data
CapitalIsBookedPnlWitness ==
  /\ pc = "done" /\ Len(trades) >= 2
  /\ Last(trades).exitReason = "end_of_data"
  /\ capital # initialCapital

\* C37: a stop exit is labelled initial_stop only for a position that never
\* reached the profit-protection threshold: a position whose profitATR was at
\* or above profitThresholdATR on an earlier bar is never closed with that label.
InitialStopNeverProtected ==
  [][ (Closed /\ Last(trades').exitReason = "initial_stop")
        => ~QGe(maxProfitATR, profitThresholdATR) ]_vars

\* a bar on which the open position is managed (lines 636-705)
Managed ==
  /\ pc = "loop" /\ i' = i + 1 /\ position # 0
  /\ ~isNaN(signal'.atr)
  /\ ~LiquidationHit(position, row', liquidationPrice)

\* C38: for ATR > 0 the candidate of calculateDynamicTrailingStop is strictly
\* below the current price for a long and strictly above it for a short, so a
\* stop hit on a bar is caused by the stop kept from an earlier bar, never by
\* the candidate of that bar.
CandidateBeyondPrice ==
  [][ (Managed /\ signal'.atr > 0) =>
        /\ IF position = 1 THEN newTrailingStop' < row' ELSE newTrailingStop' > row'
        /\ (Closed /\ Last(trades').exitReason \in StopReasons)
             => /\ StopHit(position, row', trailingStop)
                /\ ~StopHit(position, row', newTrailingStop') ]_vars

\* a stop exit on a bar with a positive ATR
CandidateBeyondPriceWitness ==
  /\ pc = "loop" /\ trades # << >>
  /\ Last(trades).exitTime = i - 1
  /\ Last(trades).exitReason \in StopReasons
  /\ signal.atr > 0
  /\ newTrailingStop # row

\* C39: a stop exit never fills better than the market: the exit price of a
\* stop-hit trade is at or below the close of the exit bar for a long and at
\* or above it for a short.
StopFillNotBetterThanClose ==
  [][ (Closed /\ Last(trades').exitReason \in StopReasons) =>
        IF position = 1
        THEN Last(trades').exitPrice <= row'
        ELSE Last(trades').exitPrice >= row' ]_vars

(***************************************************************************)
(* WorkerPool (unnamed/part_001 43-117).  run and the event handlers are   *)
(* callbacks of one thread: each runs to its end without interruption.     *)
(*   maxWorkers, totalTasks, queue, results, activeWorkers, completedTasks *)
(*             the fields of the pool                                      *)
(*   workers   the Worker objects in the order of their creation, each     *)
(*             with the task it was given as workerData and its state:     *)
(*             "running", "posted" (its message was handled), "failed"     *)
(*             (its error was handled), "exited" (it stopped in silence)   *)
(*   resolved  the values resolveAll was called with, in order             *)
(*   pc        "idle" before run, "pool" after                             *)
(* A worker delivers one message or one error, or stops without either;    *)
(* the exit handler only logs.                                             *)
(***************************************************************************)
\* the longest task list
MaxTasks == 3

\* tasks carry their index as id (line 150)
TaskLists == { [k \in 1 .. n |-> k] : n \in 0 .. MaxTasks }

\* maxWorkers || os.cpus().length
PoolSizes == {1, 2, 3}

thePool ==
  [queue |-> queue, workers |-> workers, results |-> results,
   activeWorkers |-> activeWorkers, resolved |-> resolved]

\* a fault: resolveAll as soon as the queue is empty, workers still running
startWorkerEager(P) ==
  IF P.queue = << >>
  THEN [P EXCEPT !.resolved = Append(@, P.results)]
  ELSE [P EXCEPT !.queue = Tail(@), !.activeWorkers = @ + 1,
                 !.workers = Append(@, [task |-> Head(P.queue), state |-> "running"])]

\* startWorker, lines 75-90
startWorker(P) ==
  IF P.queue = << >>
  THEN IF P.activeWorkers = 0
       THEN [P EXCEPT !.resolved = Append(@, P.results)]
       ELSE P
  ELSE [P EXCEPT !.queue = Tail(@), !.activeWorkers = @ + 1,
                 !.workers = Append(@, [task |-> Head(P.queue), state |-> "running"])]

\* the loop of lines 69-71: its bound reads the queue at every turn
RECURSIVE StartInitial(_, _, _)
StartInitial(P, most, idx) ==
  IF idx < Min(most, Len(P.queue))
  THEN StartInitial(startWorker(P), most, idx + 1)
  ELSE P

SetPool(P) ==
  /\ queue' = P.queue
  /\ workers' = P.workers
  /\ results' = P.results
  /\ activeWorkers' = P.activeWorkers
  /\ resolved' = P.resolved

notPool == <<config, i, row, signal, capital, posVars, trades, equityCurve, regimeLog,
             newTrailingStop, entries, reportVars, liveVars, seriesVars, scalpVars>>

InitPool ==
  /\ strategyMode = "adaptive"
  /\ interval = "1h"
  /\ useRegimeParams \in UseRegimeParams
  /\ leverage \in Leverages
  /\ pc = "idle"
  /\ i = 0
  /\ row = 0
  /\ signal = generateSignals(0, strategyMode, interval, AnySnapshot(0))
  /\ capital = initialCapital
  /\ position = 0
  /\ entryPrice = 0
  /\ entryBar = 0
  /\ trailingStop = 0
  /\ positionQty = 0
  /\ liquidationPrice = 0
  /\ maxProfitATR = ZeroQ
  /\ trades = << >>
  /\ equityCurve = << >>
  /\ regimeLog = << >>
  /\ newTrailingStop = 0
  /\ entries = 0
  /\ NoReport
  /\ NoLive
  /\ NoSeries
  /\ maxWorkers \in PoolSizes
  /\ totalTasks = 0
  /\ queue = << >>
  /\ workers = << >>
  /\ results = << >>
  /\ activeWorkers = 0
  /\ completedTasks = 0
  /\ resolved = << >>
  /\ NoScalp

\* run(tasks), lines 55-73
Run ==
  /\ pc = "idle"
  /\ pc' = "pool"
  /\ \E tasks \in TaskLists :
       /\ totalTasks' = Len(tasks)
       /\ completedTasks' = 0
       /\ SetPool(StartInitial([thePool EXCEPT !.queue = tasks, !.results = << >>],
                               maxWorkers, 0))
  /\ UNCHANGED <<notPool, maxWorkers>>

\* worker.on('message'), lines 91-104
WorkerPosts ==
  /\ pc = "pool"
  /\ \E w \in 1 .. Len(workers) :
       /\ workers[w].state = "running"
       /\ completedTasks' = completedTasks + 1
       /\ SetPool(startWorker([thePool EXCEPT
              !.results = Append(@, workers[w].task),
              !.activeWorkers = @ - 1,
              !.workers[w].state = "posted"]))
  /\ UNCHANGED <<notPool, pc, maxWorkers, totalTasks>>

\* worker.on('error'), lines 106-110
WorkerFails ==
  /\ pc = "pool"
  /\ \E w \in 1 .. Len(workers) :
       /\ workers[w].state = "running"
       /\ SetPool(startWorker([thePool EXCEPT
              !.activeWorkers = @ - 1,
              !.workers[w].state = "failed"]))
  /\ UNCHANGED <<notPool, pc, maxWorkers, totalTasks, completedTasks>>

\* worker.on('exit') of a worker that sent neither: lines 112-116 only log
WorkerExits ==
  /\ pc = "pool"
  /\ \E w \in 1 .. Len(workers) :
       /\ workers[w].state = "running"
       /\ workers' = [workers EXCEPT ![w].state = "exited"]
  /\ UNCHANGED <<notPool, pc, maxWorkers, totalTasks, queue, results, activeWorkers,
                 completedTasks, resolved>>

NextPool == Run \/ WorkerPosts \/ WorkerFails \/ WorkerExits
SpecPool == InitPool /\ [][NextPool]_vars

\* the tasks given to workers so far, and how often task k occurs in a list
Handed == [w \in 1 .. Len(workers) |-> workers[w].task]
Count(list, k) == Cardinality({n \in 1 .. Len(list) : list[n] = k})

\* C31: run resolves only after every task of the queue has been dispatched
\* and every started worker has finished by a message or an error; it
\* resolves at most once; each task is handed to exactly one worker; the
\* resolved results hold exactly one entry per task whose worker posted.
PoolResolvesAfterAll ==
  /\ Len(resolved) <= 1
  /\ \A k \in 1 .. totalTasks : Count(Handed, k) + Count(queue, k) = 1
  /\ \A w \in 1 .. Len(workers) :
       Count(results, workers[w].task) = IF workers[w].state = "posted" THEN 1 ELSE 0
  /\ Len(results) = completedTasks
  /\ resolved # << >> =>
       /\ queue = << >>
       /\ Len(workers) = totalTasks
       /\ \A w \in 1 .. Len(workers) : workers[w].state \in {"posted", "failed"}
       /\ resolved[1] = results

\* a run of three tasks on two workers, resolved, one worker having failed
PoolResolvesAfterAllWitness ==
  /\ Len(resolved) = 1 /\ totalTasks = 3 /\ maxWorkers = 2
  /\ \E w \in 1 .. Len(workers) : workers[w].state = "failed"
  /\ Len(results) = 2

\* C40: run resolves for every task list: once no task is queued and no
\* worker is running, the promise is settled.
PoolSettles ==
  (pc = "pool" /\ queue = << >>
     /\ \A w \in 1 .. Len(workers) : workers[w].state # "running")
    => resolved # << >>

-----------------------------------------------------------------------------
\* SEBScalpingStrategy of src/agro.cjs under its default configuration.
\* Prices and the ATR are in cents; multipliers are in hundredths.  The bars
\* of analyze are drawn one by one: close, atr, adx, avgATR and the bands are
\* functions of an arbitrary candle history.  A value of 0 stands for the
\* falsy values null, undefined and 0, which the code does not tell apart.
\* The money of a trade (size, fees, currentCapital, equity) is left out: no
\* line that reads or writes a stop reads it.

sebPeriod == 20
adxThreshold == 25
maxBandAngle == 30
\* 1.5, in hundredths
atrVolatilityThreshold == 150
\* 0.1 percent, in thousandths of a percent
minBandPenetration == 100
\* 1.0 and 0.5, in hundredths
stopLossMultiplier == 100
trailingStopATRMultiplier == 50
partialTakeProfit == 50
useTrailingStop == TRUE
useDynamicBands == TRUE

\* highestPrice of a short and lowestPrice of a long (lines 632-633)
Infinity == 10^9

MaxBars == 22

ScalpCloses == {9880, 9940, 10000, 10060, 10120}
ScalpATRs == {0, 40, 80}
ScalpADXs == {0, 8, 30}
ScalpAvgATRs == {0, 80}
\* middle line, distance of the bands from it, angle in degrees
ScalpBands == {<<9980, 70, 0>>, <<9980, 70, 45>>, <<10020, 70, 0>>, <<10020, 70, 45>>}

NullBands == [upper |-> 0, middle |-> 0, lower |-> 0, angle |-> 0]

\* standardErrorBands: no band before sebPeriod closes are known (lines
\* 21-24), then upper and lower lie at one distance from the middle
BandsAt(idx) ==
  IF idx < sebPeriod - 1
  THEN {NullBands}
  ELSE { [upper |-> sb[1] + sb[2], middle |-> sb[1], lower |-> sb[1] - sb[2],
           angle |-> sb[3]] : sb \in ScalpBands }

\* the rows analyze returns (lines 470-477)
AnalyzedBars(idx) ==
  [close : ScalpCloses, atr : ScalpATRs, adx : ScalpADXs, avgATR : ScalpAvgATRs,
   bands : BandsAt(idx)]

checkMarketRegime(b) ==
  IF b.adx = 0
  THEN "unknown"
  ELSE LET isRanging == b.adx < adxThreshold
           bandAngleOk == b.bands.angle < maxBandAngle
           volatilityOk == \/ ~useDynamicBands
                           \/ /\ b.atr # 0
                              /\ b.avgATR # 0
                              /\ b.atr * MultScale < b.avgATR * atrVolatilityThreshold
       IN IF isRanging /\ bandAngleOk /\ volatilityOk
          THEN "ranging"
          ELSE IF ~isRanging THEN "trending" ELSE "uncertain"

NoSignal == [type |-> "none"]

\* lines 504-553; trading hours 0 to 24 admit every bar and
\* requireRsiDivergence is off
generateSignal(b) ==
  IF b.bands.upper = 0 \/ b.atr = 0
  THEN NoSignal
  ELSE IF checkMarketRegime(b) # "ranging"
  THEN NoSignal
  ELSE IF (b.close - b.bands.upper) * 100 * PctScale
            > minBandPenetration * b.bands.upper
  THEN [type |-> "short", entry |-> b.close,
        stopLoss |-> b.bands.upper + (b.atr * stopLossMultiplier) \div MultScale,
        takeProfit |-> b.bands.middle]
  ELSE IF (b.bands.lower - b.close) * 100 * PctScale
            > minBandPenetration * b.bands.lower
  THEN [type |-> "long", entry |-> b.close,
        stopLoss |-> b.bands.lower - (b.atr * stopLossMultiplier) \div MultScale,
        takeProfit |-> b.bands.middle]
  ELSE NoSignal

\* openTrade(signal, bar), lines 615-642; openTime is the index of the bar
openTradeOf(s, idx) ==
  [status |-> "open", type |-> s.type, entry |-> s.entry, stopLoss |-> s.stopLoss,
   takeProfit |-> s.takeProfit, openTime |-> idx,
   partialClosed |-> FALSE, breakeven |-> FALSE,
   trailingStopPrice |-> s.stopLoss,
   highestPrice |-> IF s.type = "long" THEN s.entry ELSE Infinity,
   lowestPrice |-> IF s.type = "short" THEN s.entry ELSE Infinity]

\* lines 644-686
updateTrailingStop(t, b) ==
  IF b.atr = 0
  THEN t
  ELSE IF t.type = "long"
  THEN IF b.close > t.highestPrice
       THEN LET newStop == b.close - (b.atr * trailingStopATRMultiplier) \div MultScale
            IN IF newStop > t.trailingStopPrice
               THEN [t EXCEPT !.highestPrice = b.close,
                              !.trailingStopPrice = newStop, !.stopLoss = newStop]
               ELSE [t EXCEPT !.highestPrice = b.close]
       ELSE t
  ELSE IF b.close < t.lowestPrice
       THEN LET newStop == b.close + (b.atr * trailingStopATRMultiplier) \div MultScale
            IN IF newStop < t.trailingStopPrice
               THEN [t EXCEPT !.lowestPrice = b.close,
                              !.trailingStopPrice = newStop, !.stopLoss = newStop]
               ELSE [t EXCEPT !.lowestPrice = b.close]
       ELSE t

NoExit == [price |-> 0, reason |-> "none"]

\* lines 688-728: the trade as checkExit leaves it, and what it returns
checkExit(t, b) ==
  LET partial == [t EXCEPT !.partialClosed = TRUE, !.breakeven = TRUE,
                           !.stopLoss = t.entry]
  IN IF t.type = "long" /\ b.close <= t.stopLoss
     THEN [trade |-> t, exit |-> [price |-> t.stopLoss, reason |-> "Stop loss hit"]]
     ELSE IF t.type = "short" /\ b.close >= t.stopLoss
     THEN [trade |-> t, exit |-> [price |-> t.stopLoss, reason |-> "Stop loss hit"]]
     ELSE IF \/ t.type = "long" /\ b.close >= t.takeProfit
             \/ t.type = "short" /\ b.close <= t.takeProfit
     THEN IF ~t.partialClosed /\ partialTakeProfit < MultScale
          THEN [trade |-> partial, exit |-> NoExit]
          ELSE [trade |-> t, exit |-> [price |-> t.takeProfit, reason |-> "Take profit hit"]]
     ELSE [trade |-> t, exit |-> NoExit]

\* the record closeTrade pushes (lines 751-765), without its money fields
closeTrade(t, x, idx) ==
  [type |-> t.type, entry |-> t.entry, stopLoss |-> t.stopLoss,
   openTime |-> t.openTime, exitPrice |-> x.price, exitTime |-> idx,
   exitReason |-> x.reason]

notScalp == <<config, row, signal, capital, posVars, equityCurve, regimeLog,
              newTrailingStop, entries, reportVars, liveVars, seriesVars, poolVars>>

InitScalp ==
  /\ strategyMode = "adaptive"
  /\ interval = "1h"
  /\ useRegimeParams \in UseRegimeParams
  /\ leverage \in Leverages
  /\ pc = "scalp"
  /\ i = 1
  /\ row = 0
  /\ signal = generateSignals(0, strategyMode, interval, AnySnapshot(0))
  /\ capital = initialCapital
  /\ position = 0
  /\ entryPrice = 0
  /\ entryBar = 0
  /\ trailingStop = 0
  /\ positionQty = 0
  /\ liquidationPrice = 0
  /\ maxProfitATR = ZeroQ
  /\ trades = << >>
  /\ equityCurve = << >>
  /\ regimeLog = << >>
  /\ newTrailingStop = 0
  /\ entries = 0
  /\ NoReport
  /\ NoLive
  /\ NoSeries
  /\ NoPool
  /\ openTrade = [status |-> "none"]
  /\ lastClose \in ScalpCloses

\* one turn of the loop of backtest, lines 570-603
ScalpBar ==
  /\ pc = "scalp"
  /\ i <= MaxBars
  /\ \E b \in AnalyzedBars(i) :
       LET trailed == IF useTrailingStop /\ b.atr # 0
                      THEN updateTrailingStop(openTrade, b)
                      ELSE openTrade
           checked == checkExit(trailed, b)
           managed == openTrade.status = "open"
           exits == managed /\ checked.exit.reason # "none"
           kept == IF managed /\ ~exits THEN checked.trade ELSE [status |-> "none"]
           s == generateSignal(b)
       IN /\ trades' = IF exits
                       THEN Append(trades, closeTrade(checked.trade, checked.exit, i))
                       ELSE trades
          /\ openTrade' = IF kept.status = "none" /\ s.type # "none"
                          THEN openTradeOf(s, i)
                          ELSE kept
          /\ lastClose' = b.close
  /\ i' = i + 1
  /\ pc' = pc
  /\ UNCHANGED notScalp

\* the data ends: lines 606-612
EndOfBacktest ==
  /\ pc = "scalp"
  /\ pc' = "scalpDone"
  /\ trades' = IF openTrade.status = "open"
               THEN Append(trades, closeTrade(openTrade,
                      [price |-> lastClose, reason |-> "End of backtest"], i - 1))
               ELSE trades
  /\ UNCHANGED <<i, openTrade, lastClose>>
  /\ UNCHANGED notScalp

NextScalp == ScalpBar \/ EndOfBacktest
SpecScalp == InitScalp /\ [][NextScalp]_vars

\* the trade of this step is the trade of the step before
SameTrade ==
  /\ openTrade.status = "open"
  /\ openTrade'.status = "open"
  /\ openTrade'.openTime = openTrade.openTime

\* C35: from open to close the stop of a trade only moves in the favourable
\* direction: a long trade's stopLoss never decreases and a short trade's
\* stopLoss never increases from one bar to the next.
StopOnlyFavourable ==
  [][SameTrade =>
       /\ openTrade.type = "long" => openTrade'.stopLoss >= openTrade.stopLoss
       /\ openTrade.type = "short" => openTrade'.stopLoss <= openTrade.stopLoss]_vars

=============================================================================
